---- MODULE Spec2Model ----
(***************************************************************************)
(* A model of the WAWTELECOM back end: the user store with its account     *)
(* lockout (models/User.js), the login route (routes/auth), the            *)
(* authorization middleware (middleware/authMiddleware.js) and the         *)
(* performance routes (routes/performance) over the performance store      *)
(* (models/Performance.js).                                                *)
(*                                                                         *)
(* Every request is handled by an async handler that is suspended at each  *)
(* `await` of a store operation.  A request slot r of Req runs one request *)
(* at a time; pc[r] is the await the handler is suspended at, and one      *)
(* action is the code between two awaits, so that handlers of different    *)
(* slots interleave exactly where the code can be interleaved.  A Mongoose *)
(* document is a private copy of the stored document (loc[r]); save()      *)
(* writes back only the paths the handler modified.                        *)
(*                                                                         *)
(* Messages are the source's strings with accents dropped.  Timestamps     *)
(* (new Date()) are modelled by their presence only.                       *)
(*                                                                         *)
(* The routes are checked by subsystem: SpecAuthSeq and SpecPerfSeq run    *)
(* the requests of routes/auth and of routes/performance one after the     *)
(* other; SpecAuth and SpecPerf run them in flight together.  The other    *)
(* specifications run the routes one property is about, with the inputs    *)
(* that property needs.  SpecGate, with the protected routes, SpecRole,    *)
(* with the listing of all records while the stored roles change,          *)
(* SpecGet, with the read of one record, and SpecList, with the listing,   *)
(* run beside the seeding script (scripts/seed), the one code that removes *)
(* users.                                                                  *)
(***************************************************************************)
EXTENDS Integers, Sequences, FiniteSets, TLC

VARIABLES
    users,      \* the users collection: _id -> document
    perfs,      \* the performances collection: _id -> document
    nextId,     \* the next fresh ObjectId of the performances collection
    issued,     \* ids of the users a token has been signed for
    pc,         \* per request slot: where its handler is suspended; and
                \* the seeding script, under Seed
    req,        \* per request slot: the request (route, headers, body, params)
    loc,        \* per request slot: the handler's local documents; and the
                \* administrator's, under Admin, and the script's, under Seed
    resp,       \* per request slot: the response sent last
    streak      \* per user: the login requests with a wrong password answered
                \* in a row, since the last other event on the account

vars == <<users, perfs, nextId, issued, pc, req, loc, resp, streak>>

----------------------------------------------------------------------------
(* Bounds of the model *)

\* the request slots: how many requests may be in flight together
Req == {"r1", "r2"}

\* the slot of the specifications in which requests run one after the other
SeqReq == {"r1"}

\* the administrator's session: it holds documents, it sends no request
Admin == "admin"

\* the run of the seeding script: it holds a position and documents, it
\* sends no request
Seed == "seed"

\* ObjectIds the performances collection may hand out (creations per run)
MaxRecords == 2

\* the users of the initial store, by _id
UserIds == {"A", "B"}

\* the cap of the history of wrong passwords in a row
MaxStreak == 6

\* the cap of tentativesConnexion: a login whose password is to be compared
\* is sent while the stored counter is below it
MaxTentatives == 6

\* e-mail addresses a login may carry (the last belongs to nobody)
Emails == {"a@waw.com", "b@waw.com", "x@waw.com"}

\* the addresses of the logins that run beside the administrator's unlock:
\* A's, and one that belongs to nobody
LoginEmails == {"a@waw.com", "x@waw.com"}

\* plain passwords a request may carry
Passwords == {"pw1", "pw2"}

\* e-mail addresses a registration may carry (the first is A's)
RegisterEmails == {"a@waw.com", "x@waw.com", "y@waw.com"}

\* the role a registration body may carry: none, or a role of the enum
BodyRoles == {"none", "admin"}

\* the _ids the users collection hands out to the users registered
NewIds == <<"C", "D">>

\* the nom a profile update may carry, or none
BodyNoms == {"none", "Sow"}

\* the bodies a profile update may carry: nom and poste, and fields the
\* route does not name, each a value or none
ProfileBodies ==
    {[nom |-> n, poste |-> p, role |-> ro, email |-> e] :
        n \in BodyNoms, p \in {"none", "Chef"}, ro \in {"none", "admin"},
        e \in {"none", "b@waw.com"}}

\* the bodies that carry nothing but a nom
NomBodies ==
    {b \in ProfileBodies : b.poste = "none" /\ b.role = "none" /\ b.email = "none"}

\* e-mail addresses as a client may write them
MixedCaseEmails == {"A@WAW.com", "x@waw.com", "X@WAW.com"}

----------------------------------------------------------------------------
(* models/User.js *)

\* userSchema.statut enum
Statuts == {"actif", "inactif"}

\* userSchema.role enum
Roles == {"admin", "manager", "utilisateur"}

\* dateBlocage: absent, or a timestamp
NoDate == "none"
SomeDate == "date"

\* the threshold of incrementLoginAttempts
MaxLoginAttempts == 5

\* bcrypt.hash: a one-way digest of the plain password, stored in its place
Hash(plain) == <<"bcrypt", plain>>

\* a password as a handler assigns it: the plain text of the request
Plain(plain) == <<"plain", plain>>

\* userSchema.methods.comparePassword: bcrypt.compare(candidate, this.password)
comparePassword(doc, candidatePassword) == Hash(candidatePassword) = doc.password

\* a save hook that never hashes
hashPassword_Never(doc) == doc

\* userSchema.pre("save"): a password that was assigned is replaced by its
\* digest; one that was loaded is left as it is
hashPassword(doc) ==
    IF doc.password[1] = "plain"
    THEN [doc EXCEPT !.password = Hash(doc.password[2])]
    ELSE doc

\* the document User.create stores, schema defaults applied
NewUser(email, plain, role) ==
    [ nom                 |-> "Fall",
      poste               |-> "none",
      email               |-> email,
      password            |-> Hash(plain),
      statut              |-> "actif",
      role                |-> role,
      tentativesConnexion |-> 0,
      compteBloque        |-> FALSE,
      dateBlocage         |-> NoDate ]

\* document.save(): $set of the paths whose value the handler changed in its
\* copy `doc` of the document it loaded as `loaded`; other paths keep what is
\* stored now
SaveModified(stored, loaded, doc) ==
    [f \in DOMAIN stored |-> IF doc[f] # loaded[f] THEN doc[f] ELSE stored[f]]

\* userSchema.methods.updateLastLogin, up to its save
updateLastLogin(doc) == [doc EXCEPT !.tentativesConnexion = 0]

\* incrementLoginAttempts blocking one attempt late (> for >=)
incrementLoginAttempts_Late(doc) ==
    LET n == doc.tentativesConnexion + 1
    IN  IF n > MaxLoginAttempts
        THEN [doc EXCEPT !.tentativesConnexion = n,
                         !.compteBloque = TRUE,
                         !.dateBlocage = SomeDate]
        ELSE [doc EXCEPT !.tentativesConnexion = n]

\* userSchema.methods.incrementLoginAttempts, up to its save
incrementLoginAttempts(doc) ==
    LET n == doc.tentativesConnexion + 1
    IN  IF n >= MaxLoginAttempts
        THEN [doc EXCEPT !.tentativesConnexion = n,
                         !.compteBloque = TRUE,
                         !.dateBlocage = SomeDate]
        ELSE [doc EXCEPT !.tentativesConnexion = n]

\* userSchema.methods.unlockAccount, up to its save
unlockAccount(doc) ==
    [doc EXCEPT !.compteBloque = FALSE,
                !.tentativesConnexion = 0,
                !.dateBlocage = NoDate]

\* body("email").normalizeEmail(), and lowercase: true of userSchema.email:
\* the address in lower case
Lower(email) ==
    IF email = "A@WAW.com" THEN "a@waw.com"
    ELSE IF email = "X@WAW.com" THEN "x@waw.com"
    ELSE email

\* User.findOne({ email }): the ids of the documents found (at most one)
FindUserByEmail(email) == {u \in DOMAIN users : users[u].email = email}

\* User.findById(id)
FindUserById(id) == {u \in DOMAIN users : u = id}

----------------------------------------------------------------------------
(* requests, responses, handler locals *)

NoToken == [kind |-> "missing", id |-> "-"]
\* an Authorization header is absent (NoToken), or a Bearer with a token of
\* kind "valid" (authentic and unexpired), "expired" (authentic, past its
\* expiry) or "forged" (not signed with the server's secret)

NoBody == [mois |-> 0]
NoQuery == [annee |-> 0]
NoReq == [op |-> "none", email |-> "-", password |-> "-", role |-> "-",
          token |-> NoToken, body |-> NoBody, id |-> 0, query |-> NoQuery]
NoLoc == [user |-> <<>>, caller |-> "-", perf |-> <<>>]
\* data is empty for an answer that carries no data, and else holds the one
\* value the answer carries: a document, a list of documents, an object
NoResp == [status |-> 0, message |-> "-", token |-> NoToken, data |-> {}]

Reply(status, message) ==
    [status |-> status, message |-> message, token |-> NoToken, data |-> {}]

\* generateToken(id): jwt.sign({ id }, secret, { expiresIn })
generateToken(id) == [kind |-> "valid", id |-> id]

\* a slot is free when no handler is suspended in it
Free(r) == pc[r] \in {"idle", "done"}

\* the slot's request is answered: the handler ends
Answer(r, request, response) ==
    /\ pc' = [pc EXCEPT ![r] = "done"]
    /\ req' = [req EXCEPT ![r] = request]
    /\ loc' = [loc EXCEPT ![r] = NoLoc]
    /\ resp' = [resp EXCEPT ![r] = response]

\* the handler is suspended at the await named `at`
Suspend(r, at, request, locals) ==
    /\ pc' = [pc EXCEPT ![r] = at]
    /\ req' = [req EXCEPT ![r] = request]
    /\ loc' = [loc EXCEPT ![r] = locals]
    /\ resp' = [resp EXCEPT ![r] = NoResp]

----------------------------------------------------------------------------
(* routes/auth: POST /api/auth/login *)

\* the login checks without the blocked check before the comparison
LoginGate_NoBlockedCheck(user) ==
    IF user.statut # "actif"
    THEN Reply(403, "Compte inactif. Contactez l'administrateur.")
    ELSE Reply(0, "comparePassword")

\* the login checks with statut tested before compteBloque
LoginGate_InactiveFirst(user) ==
    IF user.statut # "actif"
    THEN Reply(403, "Compte inactif. Contactez l'administrateur.")
    ELSE IF user.compteBloque
    THEN Reply(423, "Compte bloque. Contactez l'administrateur.")
    ELSE Reply(0, "comparePassword")

\* the checks of the login handler on the document it found, in the code's
\* order, before any password comparison
LoginGate(user) ==
    IF user.compteBloque
    THEN Reply(423, "Compte bloque. Contactez l'administrateur.")
    ELSE IF user.statut # "actif"
    THEN Reply(403, "Compte inactif. Contactez l'administrateur.")
    ELSE Reply(0, "comparePassword")

\* the document the failed or successful login saves over the stored one
LoginSave(stored, doc, isPasswordValid) ==
    IF isPasswordValid
    THEN SaveModified(stored, doc, updateLastLogin(doc))
    ELSE SaveModified(stored, doc, incrementLoginAttempts(doc))

\* the login telling a wrong password from an unknown email
LoginReply_WrongPassword(id, isPasswordValid) ==
    IF isPasswordValid
    THEN [status |-> 200, message |-> "Connexion reussie",
          token |-> generateToken(id), data |-> {}]
    ELSE Reply(401, "Mot de passe incorrect")

\* the response after the password comparison
LoginReply(id, isPasswordValid) ==
    IF isPasswordValid
    THEN [status |-> 200, message |-> "Connexion reussie",
          token |-> generateToken(id), data |-> {}]
    ELSE Reply(401, "Identifiants invalides")

\* the history of an account after a login request for it was answered
Answered(id, wrongPassword) ==
    [streak EXCEPT ![id] = IF wrongPassword
                           THEN IF @ < MaxStreak THEN @ + 1 ELSE @
                           ELSE 0]

\* from the request to the await of comparePassword: User.findOne and the
\* not-found, blocked and inactive answers
LoginFind(r, email, password) ==
    /\ Free(r)
    /\ LET request == [NoReq EXCEPT !.op = "login", !.email = Lower(email),
                                    !.password = password]
           found == FindUserByEmail(request.email)
       IN  IF found = {}
           THEN /\ Answer(r, request, Reply(401, "Identifiants invalides"))
                /\ UNCHANGED streak
           ELSE LET id == CHOOSE u \in found : TRUE
                    gate == LoginGate(users[id])
                IN  IF gate.status # 0
                    THEN /\ Answer(r, request, gate)
                         /\ streak' = Answered(id,
                                ~comparePassword(users[id], password))
                    ELSE /\ users[id].tentativesConnexion < MaxTentatives
                         /\ Suspend(r, "login_compare", request,
                                    [NoLoc EXCEPT !.user = <<users[id]>>,
                                                  !.caller = id])
                         /\ UNCHANGED streak
    /\ UNCHANGED <<users, perfs, nextId, issued>>

\* from the password comparison to the response: the save of
\* incrementLoginAttempts or updateLastLogin, and the token; the save of a
\* document that is stored no more rejects (DocumentNotFoundError), which the
\* catch block answers
LoginFinish(r) ==
    /\ pc[r] = "login_compare"
    /\ LET doc == loc[r].user[1]
           id == loc[r].caller
           isPasswordValid == comparePassword(doc, req[r].password)
       IN  IF FindUserById(id) = {}
           THEN /\ Answer(r, req[r],
                          Reply(500, "Erreur serveur lors de la connexion"))
                /\ UNCHANGED <<users, issued, streak>>
           ELSE /\ users' = [users EXCEPT
                               ![id] = LoginSave(users[id], doc, isPasswordValid)]
                /\ issued' = IF isPasswordValid THEN issued \cup {id}
                                                ELSE issued
                /\ streak' = Answered(id, ~isPasswordValid)
                /\ Answer(r, req[r], LoginReply(id, isPasswordValid))
    /\ UNCHANGED <<perfs, nextId>>

----------------------------------------------------------------------------
(* routes/auth: POST /api/auth/register *)

\* the users collection without its unique index
DuplicateEmail_NoIndex(email) == FALSE

\* the unique index on email: TRUE when inserting a user with this email
\* raises the duplicate key error E11000
DuplicateEmail(email) == \E u \in DOMAIN users : users[u].email = email

\* the ObjectIds User.create has handed out: each went into a token
HandedOut == {k \in 1 .. Len(NewIds) : NewIds[k] \in issued}

\* the _id of the next user created: one never handed out before, whatever
\* the collection holds
FreshUserId == NewIds[Cardinality(HandedOut) + 1]

\* from the request to the await of User.create: User.findOne({ email }) and
\* the answer to an email that is taken
RegisterFind(r, email, password, role) ==
    /\ Free(r)
    /\ LET request == [NoReq EXCEPT !.op = "register", !.email = Lower(email),
                                    !.password = password, !.role = role]
       IN  IF FindUserByEmail(request.email) # {}
           THEN Answer(r, request,
                       Reply(400, "Un utilisateur avec cet email existe deja"))
           ELSE Suspend(r, "register_create", request, NoLoc)
    /\ UNCHANGED <<users, perfs, nextId, issued, streak>>

\* User.create with the body's role (the schema's default when it has none),
\* the token and the 201, or the catch block's answer
RegisterCreate(r) ==
    /\ pc[r] = "register_create"
    /\ IF DuplicateEmail(req[r].email)
       THEN /\ Answer(r, req[r],
                      Reply(500, "Erreur serveur lors de l'inscription"))
            /\ UNCHANGED <<users, issued, streak>>
       ELSE LET id == FreshUserId
                role == IF req[r].role = "none" THEN "utilisateur"
                        ELSE req[r].role
            IN  /\ Cardinality(HandedOut) < Len(NewIds)
                /\ users' = [u \in DOMAIN users \cup {id} |->
                                IF u = id
                                THEN NewUser(req[r].email, req[r].password, role)
                                ELSE users[u]]
                /\ issued' = issued \cup {id}
                /\ streak' = [u \in DOMAIN streak \cup {id} |->
                                 IF u = id THEN 0 ELSE streak[u]]
                /\ Answer(r, req[r],
                          [status |-> 201,
                           message |-> "Utilisateur cree avec succes",
                           token |-> generateToken(id), data |-> {}])
    /\ UNCHANGED <<perfs, nextId>>

----------------------------------------------------------------------------
(* writes to the users collection made outside the routes *)

\* an administrator sets a user's statut in the store
AdminSetStatut(u, s) ==
    /\ u \in DOMAIN users
    /\ users[u].statut # s
    /\ users' = [users EXCEPT ![u].statut = s]
    /\ streak' = [streak EXCEPT ![u] = 0]
    /\ UNCHANGED <<perfs, nextId, issued, pc, req, loc, resp>>

\* an administrator sets a user's role in the store
AdminSetRole(u, role) ==
    /\ u \in DOMAIN users
    /\ users[u].role # role
    /\ users' = [users EXCEPT ![u].role = role]
    /\ UNCHANGED <<perfs, nextId, issued, pc, req, loc, resp, streak>>

\* an administrator loads a user, blocked or not: the document on which
\* unlockAccount() will be called
UnlockLoad(u) ==
    /\ u \in DOMAIN users
    /\ loc[Admin].user = <<>>
    /\ loc' = [loc EXCEPT ![Admin] = [NoLoc EXCEPT !.user = <<users[u]>>,
                                                  !.caller = u]]
    /\ UNCHANGED <<users, perfs, nextId, issued, pc, req, resp, streak>>

\* the administrator calls unlockAccount() on the document loaded: its save
\* writes the paths the method changed in that copy, over what is stored now,
\* and rejects when the document is stored no more
UnlockAccount ==
    /\ loc[Admin].user # <<>>
    /\ LET u == loc[Admin].caller
           doc == loc[Admin].user[1]
       IN  IF FindUserById(u) = {}
           THEN UNCHANGED <<users, streak>>
           ELSE /\ users' = [users EXCEPT
                               ![u] = SaveModified(users[u], doc,
                                                   unlockAccount(doc))]
                /\ streak' = [streak EXCEPT ![u] = 0]
    /\ loc' = [loc EXCEPT ![Admin] = NoLoc]
    /\ UNCHANGED <<perfs, nextId, issued, pc, req, resp>>

----------------------------------------------------------------------------
(* middleware/authMiddleware.js *)

\* the tokens a client can present: any forged one, and for every user a
\* token was signed for, that token before and after its expiry
Tokens ==
    {NoToken}
    \cup {[kind |-> "forged", id |-> u] : u \in UserIds}
    \cup {[kind |-> k, id |-> u] : k \in {"valid", "expired"}, u \in issued}

\* protect trusting the token alone: no check of statut and compteBloque
protect_NoRecheck(token) ==
    IF token.kind = "missing"
    THEN Reply(401, "Acces non autorise - Token manquant")
    ELSE IF token.kind = "forged"
    THEN Reply(401, "Token invalide")
    ELSE IF token.kind = "expired"
    THEN Reply(401, "Token expire")
    ELSE IF FindUserById(token.id) = {}
    THEN Reply(401, "Token invalide - utilisateur non trouve")
    ELSE Reply(0, "next")

\* protect testing compteBloque before statut
protect_BlockedFirst(token) ==
    IF token.kind = "missing"
    THEN Reply(401, "Acces non autorise - Token manquant")
    ELSE IF token.kind = "forged"
    THEN Reply(401, "Token invalide")
    ELSE IF token.kind = "expired"
    THEN Reply(401, "Token expire")
    ELSE IF FindUserById(token.id) = {}
    THEN Reply(401, "Token invalide - utilisateur non trouve")
    ELSE IF users[token.id].compteBloque
    THEN Reply(423, "Compte bloque")
    ELSE IF users[token.id].statut # "actif"
    THEN Reply(403, "Compte inactif")
    ELSE Reply(0, "next")

\* protect: the response it sends, or status 0 when it calls next()
protect(token) ==
    IF token.kind = "missing"
    THEN Reply(401, "Acces non autorise - Token manquant")
    ELSE IF token.kind = "forged"
    THEN Reply(401, "Token invalide")
    ELSE IF token.kind = "expired"
    THEN Reply(401, "Token expire")
    ELSE IF FindUserById(token.id) = {}
    THEN Reply(401, "Token invalide - utilisateur non trouve")
    ELSE IF users[token.id].statut # "actif"
    THEN Reply(403, "Compte inactif")
    ELSE IF users[token.id].compteBloque
    THEN Reply(423, "Compte bloque")
    ELSE Reply(0, "next")

\* authorizeRoles without the test of the stored role
authorizeRoles_AnyRole(roles, id) ==
    IF FindUserById(id) = {}
    THEN Reply(401, "Utilisateur non trouve")
    ELSE Reply(0, "next")

\* authorizeRoles(...roles): the response it sends, or status 0 for next()
authorizeRoles(roles, id) ==
    IF FindUserById(id) = {}
    THEN Reply(401, "Utilisateur non trouve")
    ELSE IF users[id].role \notin roles
    THEN Reply(403, "Acces interdit : role insuffisant")
    ELSE Reply(0, "next")

\* a protected route's request reaches protect; `at` is the first await of
\* what follows it
Protected(r, request, at) ==
    /\ Free(r)
    /\ LET gate == protect(request.token)
       IN  IF gate.status # 0
           THEN Answer(r, request, gate)
           ELSE Suspend(r, at, request,
                        [NoLoc EXCEPT !.caller = request.token.id])

----------------------------------------------------------------------------
(* models/Performance.js *)

\* the periods and the metrics a POST /api/performance body may carry.  A
\* body also carries statut and commentaires, which the route does not
\* check; commentaires, a text, is carried by its length once trimmed.  The
\* first four sets of metrics pass the route's express-validator chain and
\* the schema's validators; the fifth, the sixth and the eighth pass the
\* route and fail the schema (isNumeric admits a negative chiffreAffaires,
\* statut and commentaires are not checked); the seventh fails the route.
Periods == {[annee |-> 2024, mois |-> 3], [annee |-> 2024, mois |-> 4],
            [annee |-> 2025, mois |-> 1]}

Metrics ==
    { [chiffreAffaires |-> 100, objectifCA |-> 200, nouveauxClients |-> 3,
       rdvRealises |-> 40, ventesRealisees |-> 23,
       dossiersMAJ |-> 1, totalDossiers |-> 2,
       evenements |-> 1, satisfaction |-> 4, statut |-> "valide",
       commentaires |-> 12],
      [chiffreAffaires |-> 90000, objectifCA |-> 100000, nouveauxClients |-> 5,
       rdvRealises |-> 40, ventesRealisees |-> 20,
       dossiersMAJ |-> 0, totalDossiers |-> 0,
       evenements |-> 0, satisfaction |-> 5, statut |-> "brouillon",
       commentaires |-> 12],
      [chiffreAffaires |-> 300, objectifCA |-> 0, nouveauxClients |-> 0,
       rdvRealises |-> 1, ventesRealisees |-> 2,
       dossiersMAJ |-> 1, totalDossiers |-> 2,
       evenements |-> 2, satisfaction |-> 4, statut |-> "valide",
       commentaires |-> 12],
      [chiffreAffaires |-> 400, objectifCA |-> 300, nouveauxClients |-> 1,
       rdvRealises |-> 2, ventesRealisees |-> 1,
       dossiersMAJ |-> 2, totalDossiers |-> 1,
       evenements |-> 0, satisfaction |-> 3, statut |-> "valide",
       commentaires |-> 12],
      [chiffreAffaires |-> -1, objectifCA |-> 200, nouveauxClients |-> 3,
       rdvRealises |-> 40, ventesRealisees |-> 23,
       dossiersMAJ |-> 1, totalDossiers |-> 2,
       evenements |-> 1, satisfaction |-> 4, statut |-> "valide",
       commentaires |-> 12],
      [chiffreAffaires |-> 100, objectifCA |-> 200, nouveauxClients |-> 3,
       rdvRealises |-> 40, ventesRealisees |-> 23,
       dossiersMAJ |-> 1, totalDossiers |-> 2,
       evenements |-> 1, satisfaction |-> 4, statut |-> "archive",
       commentaires |-> 12],
      [chiffreAffaires |-> 100, objectifCA |-> 200, nouveauxClients |-> -1,
       rdvRealises |-> 40, ventesRealisees |-> 23,
       dossiersMAJ |-> 1, totalDossiers |-> 2,
       evenements |-> 1, satisfaction |-> 4, statut |-> "valide",
       commentaires |-> 12],
      [chiffreAffaires |-> 100, objectifCA |-> 200, nouveauxClients |-> 3,
       rdvRealises |-> 40, ventesRealisees |-> 23,
       dossiersMAJ |-> 1, totalDossiers |-> 2,
       evenements |-> 1, satisfaction |-> 4, statut |-> "valide",
       commentaires |-> 501] }

\* a body may carry a utilisateur of its own; "none" is for a body without
Bodies == {[periode |-> p, mesures |-> m, utilisateur |-> "none"] :
              p \in Periods, m \in Metrics}

\* { ...req.body }: the fields of the body
Spread(body) ==
    [f \in {"utilisateur", "annee", "mois"} \cup DOMAIN body.mesures |->
        IF f = "utilisateur" THEN body.utilisateur
        ELSE IF f = "annee" THEN body.periode.annee
        ELSE IF f = "mois" THEN body.periode.mois
        ELSE body.mesures[f]]

\* { utilisateur: req.user.id, ...req.body }: the body's owner wins
PerformanceData_BodyOwner(body, caller) ==
    IF body.utilisateur = "none"
    THEN [Spread(body) EXCEPT !.utilisateur = caller]
    ELSE Spread(body)

\* const performanceData = { ...req.body, utilisateur: req.user.id }
PerformanceData(body, caller) == [Spread(body) EXCEPT !.utilisateur = caller]

\* a stored document: the data under its _id
Document(id, data) == [f \in {"id"} \cup DOMAIN data |->
                          IF f = "id" THEN id ELSE data[f]]

\* JavaScript Numbers are IEEE 754 doubles.  A positive double is its
\* significand m, Precision bits with the leading 1 first, and the exponent e
\* of that leading bit: the value is the sum of m[i] * 2^(e + 1 - i).  The
\* operands are integers below 2^20, which doubles hold exactly.
Precision == 53

RECURSIVE Pow2(_)
Pow2(k) == IF k = 0 THEN 1 ELSE 2 * Pow2(k - 1)

\* the e with 2^e <= a / b < 2^(e + 1)
RECURSIVE Exponent(_, _)
Exponent(a, b) ==
    IF a >= 2 * b THEN Exponent(a, 2 * b) + 1
    ELSE IF a < b THEN Exponent(2 * a, b) - 1
    ELSE 0

\* the four bits of n < 16
Nibble(n) == <<n \div 8, (n \div 4) % 2, (n \div 2) % 2, n % 2>>

\* long division: the next 4 * k bits of rem / d, and the remainder left
RECURSIVE Quotient(_, _, _)
Quotient(rem, d, k) ==
    IF k = 0 THEN [bits |-> <<>>, rem |-> rem]
    ELSE LET rest == Quotient((16 * rem) % d, d, k - 1)
         IN  [bits |-> Nibble((16 * rem) \div d) \o rest.bits, rem |-> rest.rem]

\* bits + 1; one bit longer when every bit was 1
Increment(bits) ==
    LET zeros == {i \in 1 .. Len(bits) : bits[i] = 0}
        j == IF zeros = {} THEN 0
             ELSE CHOOSE i \in zeros : \A k \in zeros : k <= i
    IN  IF j = 0 THEN <<1>> \o [i \in 1 .. Len(bits) |-> 0]
        ELSE [i \in 1 .. Len(bits) |->
                 IF i < j THEN bits[i] ELSE IF i = j THEN 1 ELSE 0]

\* round to nearest, ties to even: dir is 1, 0 or -1 as what was cut off is
\* more than, equal to or less than half a unit of the last bit kept
Rounded(bits, e, dir) ==
    LET up == dir = 1 \/ (dir = 0 /\ bits[Len(bits)] = 1)
        inc == Increment(bits)
    IN  IF ~up THEN [m |-> bits, e |-> e]
        ELSE IF Len(inc) > Len(bits)
        THEN [m |-> SubSeq(inc, 1, Len(bits)), e |-> e + 1]
        ELSE [m |-> inc, e |-> e]

\* a / b for integers a, b >= 1
Divide(a, b) ==
    LET e == Exponent(a, b)
        n == IF e < 0 THEN a * Pow2(-e) ELSE a
        d == IF e > 0 THEN b * Pow2(e) ELSE b
        q == Quotient(n - d, d, (Precision - 1) \div 4)
        dir == IF 2 * q.rem > d THEN 1 ELSE IF 2 * q.rem = d THEN 0 ELSE -1
    IN  Rounded(<<1>> \o q.bits, e, dir)

\* the bits of the integer n, and the integer of the bits
RECURSIVE ToBits(_)
ToBits(n) == IF n = 0 THEN <<>> ELSE ToBits(n \div 2) \o <<n % 2>>

RECURSIVE FromBits(_)
FromBits(bits) ==
    IF bits = <<>> THEN 0
    ELSE 2 * FromBits(SubSeq(bits, 1, Len(bits) - 1)) + bits[Len(bits)]

\* the bits of bits * c + carry, four bits at a time from the last
RECURSIVE TimesBits(_, _, _)
TimesBits(bits, c, carry) ==
    IF Len(bits) < 4 THEN ToBits(FromBits(bits) * c + carry)
    ELSE LET t == FromBits(SubSeq(bits, Len(bits) - 3, Len(bits))) * c + carry
         IN  TimesBits(SubSeq(bits, 1, Len(bits) - 4), c, t \div 16)
                 \o Nibble(t % 16)

\* x * c for a double x and an integer c >= 1
Times(x, c) ==
    LET p == TimesBits(x.m, c, 0)
        dropped == SubSeq(p, Precision + 1, Len(p))
        dir == IF dropped = <<>> \/ dropped[1] = 0 THEN -1
               ELSE IF \E i \in 2 .. Len(dropped) : dropped[i] = 1 THEN 1
               ELSE 0
    IN  Rounded(SubSeq(p, 1, Precision), x.e + Len(p) - Precision, dir)

\* Math.round(x): the nearest integer, a half going up
MathRound(x) ==
    IF x.e < -1 THEN 0
    ELSE FromBits(SubSeq(x.m, 1, x.e + 1)) + x.m[x.e + 2]

\* Math.round((a / b) * 100) for integers a >= 0 and b >= 1
Percent(a, b) == IF a = 0 THEN 0 ELSE MathRound(Times(Divide(a, b), 100))

\* performanceSchema.virtual("tauxTransformation")
tauxTransformation(doc) ==
    IF doc.rdvRealises = 0 THEN 0
    ELSE Percent(doc.ventesRealisees, doc.rdvRealises)

\* performanceSchema.virtual("completudeDossiers")
completudeDossiers(doc) ==
    IF doc.totalDossiers = 0 THEN 0
    ELSE Percent(doc.dossiersMAJ, doc.totalDossiers)

\* performanceSchema.virtual("tauxObjectif")
tauxObjectif(doc) ==
    IF doc.objectifCA = 0 THEN 0
    ELSE Percent(doc.chiffreAffaires, doc.objectifCA)

\* the route's express-validator chain: TRUE when validationResult(req)
\* holds an error
RouteError(body) ==
    \/ body.periode.annee \notin 2020 .. 2030
    \/ body.periode.mois \notin 1 .. 12
    \/ body.mesures.nouveauxClients < 0
    \/ body.mesures.rdvRealises < 0
    \/ body.mesures.ventesRealisees < 0
    \/ body.mesures.dossiersMAJ < 0
    \/ body.mesures.totalDossiers < 0
    \/ body.mesures.evenements < 0
    \/ body.mesures.satisfaction \notin 1 .. 5

\* the schema's validators on the paths a body carries: TRUE when validation
\* fails with a ValidationError (on save, and on an update with
\* runValidators)
SchemaError(doc) ==
    \/ doc.annee \notin 2020 .. 2030
    \/ doc.mois \notin 1 .. 12
    \/ doc.chiffreAffaires < 0
    \/ doc.objectifCA < 0
    \/ doc.nouveauxClients < 0
    \/ doc.rdvRealises < 0
    \/ doc.ventesRealisees < 0
    \/ doc.dossiersMAJ < 0
    \/ doc.totalDossiers < 0
    \/ doc.evenements < 0
    \/ doc.satisfaction \notin 1 .. 5
    \/ doc.commentaires > 500
    \/ doc.statut \notin {"brouillon", "valide"}

\* performanceSchema.pre("save"): TRUE when the hook passes an Error to next
PreSaveError(doc) ==
    \/ doc.ventesRealisees > doc.rdvRealises
    \/ doc.dossiersMAJ > doc.totalDossiers

\* the collection without its unique index
DuplicateKey_NoIndex(doc) == FALSE

\* the unique index { utilisateur, periode.annee, periode.mois }: TRUE when
\* inserting doc raises the duplicate key error E11000
DuplicateKey(doc) ==
    \E i \in DOMAIN perfs :
        /\ perfs[i].utilisateur = doc.utilisateur
        /\ perfs[i].annee = doc.annee
        /\ perfs[i].mois = doc.mois

\* a lookup that finds nothing
FindPerformance_None(caller, periode) == {}

\* Performance.findOne({ utilisateur, "periode.annee", "periode.mois" })
FindPerformance(caller, periode) ==
    {i \in DOMAIN perfs : /\ perfs[i].utilisateur = caller
                          /\ perfs[i].annee = periode.annee
                          /\ perfs[i].mois = periode.mois}

\* Performance.findById(id)
FindPerformanceById(id) == {i \in DOMAIN perfs : i = id}

\* an update that writes nothing
FindByIdAndUpdate_NoWrite(id, data) == perfs

\* Performance.findByIdAndUpdate(id, data, { new: true, runValidators: true }):
\* $set of the data's paths on the stored document, when there is one; the
\* save hooks are not run by an update
FindByIdAndUpdate(id, data) ==
    IF id \in DOMAIN perfs
    THEN [perfs EXCEPT ![id] = [f \in DOMAIN perfs[id] |->
                                   IF f \in DOMAIN data THEN data[f]
                                   ELSE perfs[id][f]]]
    ELSE perfs

\* Performance.findByIdAndDelete(id)
FindByIdAndDelete(id) == [i \in DOMAIN perfs \ {id} |-> perfs[i]]

\* the insert of Performance.create
Insert(id, data) ==
    [i \in DOMAIN perfs \cup {id} |->
        IF i = id THEN Document(id, data) ELSE perfs[i]]

\* the order of .sort({ "periode.annee": -1, "periode.mois": -1 })
Precedes(a, b) ==
    \/ a.annee > b.annee
    \/ a.annee = b.annee /\ a.mois > b.mois

\* populate's value for a reference that no stored user has as _id
Null == "null"

\* .populate("utilisateur", ...): the owner's document in place of its _id
\* (the model keeps the _id for it), or null when the owner is stored no more
Populate(doc) ==
    [doc EXCEPT !.utilisateur = IF FindUserById(@) = {} THEN Null ELSE @]

\* the :id parameters a request may carry; BadId is no ObjectId
BadId == 0
IdParams == 0 .. MaxRecords

----------------------------------------------------------------------------
(* routes/performance: POST /api/performance *)

\* protect, then the handler up to its first await: the 400 of
\* validationResult, or on to Performance.findOne
PostStart(r, token, body) ==
    /\ Free(r)
    /\ LET request == [NoReq EXCEPT !.op = "post", !.token = token,
                                    !.body = body]
           gate == protect(token)
       IN  IF gate.status # 0
           THEN Answer(r, request, gate)
           ELSE IF RouteError(body)
           THEN Answer(r, request, Reply(400, "Donnees invalides"))
           ELSE Suspend(r, "post_find", request,
                        [NoLoc EXCEPT !.caller = token.id])
    /\ UNCHANGED <<users, perfs, nextId, issued, streak>>

\* Performance.findOne for the caller and the body's period
PostFind(r) ==
    /\ pc[r] = "post_find"
    /\ LET existing == FindPerformance(loc[r].caller, req[r].body.periode)
       IN  Suspend(r, "post_write", req[r],
                   [loc[r] EXCEPT !.perf =
                       IF existing = {} THEN <<>>
                       ELSE <<CHOOSE i \in existing : TRUE>>])
    /\ UNCHANGED <<users, perfs, nextId, issued, streak>>

\* the update branch up to populate's query: the validators of runValidators
\* and the catch block's answer, or findByIdAndUpdate; an update that found
\* no document resolves null, nothing is populated and the 200 is sent
PostUpdate(r) ==
    /\ pc[r] = "post_write"
    /\ loc[r].perf # <<>>
    /\ LET id == loc[r].perf[1]
           data == PerformanceData(req[r].body, loc[r].caller)
       IN  IF SchemaError(data)
           THEN /\ Answer(r, req[r], Reply(500, "Erreur serveur"))
                /\ UNCHANGED perfs
           ELSE /\ perfs' = FindByIdAndUpdate(id, data)
                /\ IF FindPerformanceById(id) = {}
                   THEN Answer(r, req[r],
                               [status |-> 200,
                                message |-> "Donnees mises a jour avec succes",
                                token |-> NoToken, data |-> {}])
                   ELSE Suspend(r, "post_update_populate", req[r],
                                [loc[r] EXCEPT !.perf = <<perfs'[id]>>])
    /\ UNCHANGED <<users, nextId, issued, streak>>

\* the update branch from populate's query on the document updated: the 200
PostUpdatePopulate(r) ==
    /\ pc[r] = "post_update_populate"
    /\ Answer(r, req[r],
              [status |-> 200, message |-> "Donnees mises a jour avec succes",
               token |-> NoToken, data |-> {Populate(loc[r].perf[1])}])
    /\ UNCHANGED <<users, perfs, nextId, issued, streak>>

\* the create branch with a catch block that does not know the code 11000
PostCreate_NoDuplicateCode(r) ==
    /\ pc[r] = "post_write"
    /\ loc[r].perf = <<>>
    /\ LET data == PerformanceData(req[r].body, loc[r].caller)
       IN  IF SchemaError(data) \/ PreSaveError(data) \/ DuplicateKey(data)
           THEN /\ Answer(r, req[r], Reply(500, "Erreur serveur"))
                /\ UNCHANGED <<perfs, nextId>>
           ELSE /\ nextId <= MaxRecords
                /\ perfs' = Insert(nextId, data)
                /\ nextId' = nextId + 1
                /\ Suspend(r, "post_populate", req[r],
                           [loc[r] EXCEPT !.perf = <<Document(nextId, data)>>])
    /\ UNCHANGED <<users, issued, streak>>

\* the create branch up to its second await: Performance.create, that is the
\* schema's validators, the save hook, then the insert under the unique
\* index, or the catch block's answer
PostCreate(r) ==
    /\ pc[r] = "post_write"
    /\ loc[r].perf = <<>>
    /\ LET data == PerformanceData(req[r].body, loc[r].caller)
       IN  IF SchemaError(data) \/ PreSaveError(data)
           THEN /\ Answer(r, req[r], Reply(500, "Erreur serveur"))
                /\ UNCHANGED <<perfs, nextId>>
           ELSE IF DuplicateKey(data)
           THEN /\ Answer(r, req[r],
                       Reply(400, "Des donnees existent deja pour cette periode"))
                /\ UNCHANGED <<perfs, nextId>>
           ELSE /\ nextId <= MaxRecords
                /\ perfs' = Insert(nextId, data)
                /\ nextId' = nextId + 1
                /\ Suspend(r, "post_populate", req[r],
                           [loc[r] EXCEPT !.perf = <<Document(nextId, data)>>])
    /\ UNCHANGED <<users, issued, streak>>

\* the create branch from performance.populate(...) on the document created:
\* the 201
PostPopulate(r) ==
    /\ pc[r] = "post_populate"
    /\ Answer(r, req[r],
              [status |-> 201, message |-> "Donnees creees avec succes",
               token |-> NoToken, data |-> {Populate(loc[r].perf[1])}])
    /\ UNCHANGED <<users, perfs, nextId, issued, streak>>

----------------------------------------------------------------------------
(* routes/performance: GET /api/performance/all *)

AllStart(r, token) ==
    /\ Protected(r, [NoReq EXCEPT !.op = "all", !.token = token], "all_authorize")
    /\ UNCHANGED <<users, perfs, nextId, issued, streak>>

\* authorizeRoles("admin", "manager")
AllAuthorize(r) ==
    /\ pc[r] = "all_authorize"
    /\ LET gate == authorizeRoles({"admin", "manager"}, loc[r].caller)
       IN  IF gate.status # 0
           THEN Answer(r, req[r], gate)
           ELSE Suspend(r, "all_find", req[r], loc[r])
    /\ UNCHANGED <<users, perfs, nextId, issued, streak>>

\* the periods of the documents in the order of the sort
RECURSIVE SortedPeriods(_)
SortedPeriods(periods) ==
    IF periods = {} THEN <<>>
    ELSE LET top == CHOOSE p \in periods :
                        \A q \in periods : ~Precedes(q, p)
         IN  <<top>> \o SortedPeriods(periods \ {top})

\* Performance.find().sort({ "periode.annee": -1, "periode.mois": -1 }): all
\* the documents, by period.  The sort does not order the documents of one
\* period, of different users: the list is kept as the sequence of its runs
\* of equal period, each run the set of its documents.
FindAllSorted ==
    LET periodOf(i) == [annee |-> perfs[i].annee, mois |-> perfs[i].mois]
        order == SortedPeriods({periodOf(i) : i \in DOMAIN perfs})
    IN  [k \in 1 .. Len(order) |->
            {perfs[i] : i \in {j \in DOMAIN perfs : periodOf(j) = order[k]}}]

\* Performance.find() sorted; a result with no document has nothing to
\* populate and the 200 is sent
AllFind(r) ==
    /\ pc[r] = "all_find"
    /\ IF FindAllSorted = <<>>
       THEN Answer(r, req[r], [status |-> 200, message |-> "-",
                               token |-> NoToken, data |-> {<<>>}])
       ELSE Suspend(r, "all_populate", req[r],
                    [loc[r] EXCEPT !.perf = FindAllSorted])
    /\ UNCHANGED <<users, perfs, nextId, issued, streak>>

\* populate's query on the documents found, and the 200
AllPopulate(r) ==
    /\ pc[r] = "all_populate"
    /\ Answer(r, req[r],
              [status |-> 200, message |-> "-", token |-> NoToken,
               data |-> {[k \in 1 .. Len(loc[r].perf) |->
                            {Populate(d) : d \in loc[r].perf[k]}]}])
    /\ UNCHANGED <<users, perfs, nextId, issued, streak>>

----------------------------------------------------------------------------
(* routes/performance: GET /api/performance/:id *)

GetStart(r, token, id) ==
    /\ Protected(r, [NoReq EXCEPT !.op = "get", !.token = token, !.id = id],
                 "get_find")
    /\ UNCHANGED <<users, perfs, nextId, issued, streak>>

\* the answer for the populated document: performance.utilisateur._id throws
\* on a null utilisateur and the catch block answers
GetReply(caller, performance) ==
    IF performance.utilisateur = Null
    THEN Reply(500, "Erreur serveur")
    ELSE IF performance.utilisateur # caller
    THEN Reply(403, "Acces non autorise")
    ELSE [status |-> 200, message |-> "-", token |-> NoToken,
          data |-> {performance}]

\* Performance.findById(id): a cast error on what is no ObjectId, the 404
\* when no document has the id (nothing is populated), or on to populate
GetFind(r) ==
    /\ pc[r] = "get_find"
    /\ IF req[r].id = BadId
       THEN Answer(r, req[r], Reply(500, "Erreur serveur"))
       ELSE IF FindPerformanceById(req[r].id) = {}
       THEN Answer(r, req[r], Reply(404, "Donnees de performance non trouvees"))
       ELSE Suspend(r, "get_populate", req[r],
                    [loc[r] EXCEPT !.perf = <<perfs[req[r].id]>>])
    /\ UNCHANGED <<users, perfs, nextId, issued, streak>>

\* populate's query on the document found, and the answer
GetPopulate(r) ==
    /\ pc[r] = "get_populate"
    /\ Answer(r, req[r], GetReply(loc[r].caller, Populate(loc[r].perf[1])))
    /\ UNCHANGED <<users, perfs, nextId, issued, streak>>

----------------------------------------------------------------------------
(* routes/performance: DELETE /api/performance/:id *)

DeleteStart(r, token, id) ==
    /\ Protected(r, [NoReq EXCEPT !.op = "delete", !.token = token, !.id = id],
                 "delete_find")
    /\ UNCHANGED <<users, perfs, nextId, issued, streak>>

\* the delete without the ownership check
DeleteGate_NoOwnerCheck(caller, id) ==
    IF id = BadId
    THEN Reply(500, "Erreur serveur")
    ELSE IF FindPerformanceById(id) = {}
    THEN Reply(404, "Donnees de performance non trouvees")
    ELSE Reply(0, "findByIdAndDelete")

\* Performance.findById(id) and the checks: the answer, or status 0 when the
\* handler goes on to findByIdAndDelete
DeleteGate(caller, id) ==
    IF id = BadId
    THEN Reply(500, "Erreur serveur")
    ELSE IF FindPerformanceById(id) = {}
    THEN Reply(404, "Donnees de performance non trouvees")
    ELSE IF perfs[id].utilisateur # caller
    THEN Reply(403, "Acces non autorise")
    ELSE Reply(0, "findByIdAndDelete")

DeleteFind(r) ==
    /\ pc[r] = "delete_find"
    /\ LET gate == DeleteGate(loc[r].caller, req[r].id)
       IN  IF gate.status # 0
           THEN Answer(r, req[r], gate)
           ELSE Suspend(r, "delete_write", req[r], loc[r])
    /\ UNCHANGED <<users, perfs, nextId, issued, streak>>

\* Performance.findByIdAndDelete(id) and the 200
DeleteWrite(r) ==
    /\ pc[r] = "delete_write"
    /\ perfs' = FindByIdAndDelete(req[r].id)
    /\ Answer(r, req[r], Reply(200, "Donnees supprimees avec succes"))
    /\ UNCHANGED <<users, nextId, issued, streak>>

----------------------------------------------------------------------------
(* routes/performance: GET /api/performance/stats/summary *)

\* the query strings a summary request may carry: annee, and mois or none (0)
StatsQueries == {[annee |-> a, mois |-> m] : a \in {2024, 2025}, m \in {0, 3}}

\* the BSON values of an _id: the ObjectId the collection stores, and the
\* string user._id.toString() that protect puts in req.user.id
ObjectId(id) == <<"ObjectId", id>>
HexString(id) == <<"string", id>>

\* const matchFilter = { utilisateur: req.user.id, "periode.annee", statut }
MatchFilter(caller, query) ==
    [utilisateur |-> HexString(caller), annee |-> query.annee,
     mois |-> query.mois, statut |-> "valide"]

\* the $match stage: Model.aggregate sends the pipeline as it is, without
\* casting it to the schema, so that the values are compared as BSON values
AggregateMatch(filter) ==
    {i \in DOMAIN perfs :
        /\ ObjectId(perfs[i].utilisateur) = filter.utilisateur
        /\ perfs[i].annee = filter.annee
        /\ perfs[i].statut = filter.statut
        /\ filter.mois = 0 \/ perfs[i].mois = filter.mois}

\* { $sum: "$field" } over the documents matched
RECURSIVE SumOf(_, _)
SumOf(matched, field) ==
    IF matched = {} THEN 0
    ELSE LET i == CHOOSE j \in matched : TRUE
         IN  perfs[i][field] + SumOf(matched \ {i}, field)

\* the $group stage: no document when nothing matched, else the one group
Aggregate(filter) ==
    LET matched == AggregateMatch(filter)
    IN  IF matched = {} THEN <<>>
        ELSE << [totalCA             |-> SumOf(matched, "chiffreAffaires"),
                 totalObjectif       |-> SumOf(matched, "objectifCA"),
                 totalClients        |-> SumOf(matched, "nouveauxClients"),
                 totalRDV            |-> SumOf(matched, "rdvRealises"),
                 totalVentes         |-> SumOf(matched, "ventesRealisees"),
                 totalEvenements     |-> SumOf(matched, "evenements"),
                 satisfactionMoyenne |-> Divide(SumOf(matched, "satisfaction"),
                                                Cardinality(matched)),
                 count               |-> Cardinality(matched)] >>

\* the object the handler falls back on: stats[0] || { ... }
NoStats ==
    [totalCA |-> 0, totalObjectif |-> 0, totalClients |-> 0, totalRDV |-> 0,
     totalVentes |-> 0, totalEvenements |-> 0, satisfactionMoyenne |-> 0,
     count |-> 0]

\* result with the two rates added
WithRates(result) ==
    [f \in DOMAIN result \cup {"tauxTransformation", "tauxObjectif"} |->
        IF f = "tauxTransformation"
        THEN IF result.totalRDV > 0
             THEN Percent(result.totalVentes, result.totalRDV) ELSE 0
        ELSE IF f = "tauxObjectif"
        THEN IF result.totalObjectif > 0
             THEN Percent(result.totalCA, result.totalObjectif) ELSE 0
        ELSE result[f]]

\* the handler without the fallback: result.totalRDV of undefined throws
StatsReply_NoFallback(stats) ==
    IF stats = <<>> THEN Reply(500, "Erreur serveur")
    ELSE [status |-> 200, message |-> "-", token |-> NoToken,
          data |-> {WithRates(stats[1])}]

\* the answer to the aggregation's output
StatsReply(stats) ==
    [status |-> 200, message |-> "-", token |-> NoToken,
     data |-> {WithRates(IF stats = <<>> THEN NoStats ELSE stats[1])}]

StatsStart(r, token, query) ==
    /\ Protected(r, [NoReq EXCEPT !.op = "stats", !.token = token,
                                  !.query = query], "stats_aggregate")
    /\ UNCHANGED <<users, perfs, nextId, issued, streak>>

\* Performance.aggregate and the 200
StatsAggregate(r) ==
    /\ pc[r] = "stats_aggregate"
    /\ Answer(r, req[r],
              StatsReply(Aggregate(MatchFilter(loc[r].caller, req[r].query))))
    /\ UNCHANGED <<users, perfs, nextId, issued, streak>>

----------------------------------------------------------------------------
(* routes/performance: GET /api/performance *)

\* the query strings a listing may carry; 0 and "none" stand for a parameter
\* that is absent
ListQueries ==
    {[annee |-> a, mois |-> m, statut |-> st, page |-> pl[1], limit |-> pl[2]] :
        a \in {0, 2024}, m \in {0, 3}, st \in {"none", "valide"},
        pl \in {<<0, 0>>, <<1, 1>>, <<2, 1>>, <<2, 2>>}}

\* const { limit = 12, page = 1 } = req.query
DefaultLimit == 12
PageOf(query) == IF query.page = 0 THEN 1 ELSE query.page
LimitOf(query) == IF query.limit = 0 THEN DefaultLimit ELSE query.limit

\* Performance.find(filter) / countDocuments(filter): Mongoose casts the
\* filter to the schema, so that req.user.id finds the caller's records
FindFiltered(caller, query) ==
    {i \in DOMAIN perfs :
        /\ perfs[i].utilisateur = caller
        /\ query.annee = 0 \/ perfs[i].annee = query.annee
        /\ query.mois = 0 \/ perfs[i].mois = query.mois
        /\ query.statut = "none" \/ perfs[i].statut = query.statut}

\* the documents of the ids in that order (the unique index leaves no ties
\* among the records of one user)
RECURSIVE Sorted(_)
Sorted(ids) ==
    IF ids = {} THEN <<>>
    ELSE LET top == CHOOSE i \in ids :
                        \A j \in ids : ~Precedes(perfs[j], perfs[i])
         IN  <<perfs[top]>> \o Sorted(ids \ {top})

\* the listing that skips page * limit documents
ListPage_SkipPage(caller, query) ==
    LET all == Sorted(FindFiltered(caller, query))
        skip == PageOf(query) * LimitOf(query)
        last == IF skip + LimitOf(query) < Len(all)
                THEN skip + LimitOf(query) ELSE Len(all)
    IN  IF skip >= Len(all) THEN <<>> ELSE SubSeq(all, skip + 1, last)

\* find(filter).sort(...).limit(limit).skip((page - 1) * limit)
ListPage(caller, query) ==
    LET all == Sorted(FindFiltered(caller, query))
        skip == (PageOf(query) - 1) * LimitOf(query)
        last == IF skip + LimitOf(query) < Len(all)
                THEN skip + LimitOf(query) ELSE Len(all)
    IN  IF skip >= Len(all) THEN <<>> ELSE SubSeq(all, skip + 1, last)

\* Math.ceil(total / limit); the quotient of two small integers is never
\* rounded across an integer
Pages(total, limit) == (total + limit - 1) \div limit

ListStart(r, token, query) ==
    /\ Protected(r, [NoReq EXCEPT !.op = "list", !.token = token,
                                  !.query = query], "list_find")
    /\ UNCHANGED <<users, perfs, nextId, issued, streak>>

\* the find of the page; a page with no document has nothing to populate
\* and the handler goes on to countDocuments
ListFind(r) ==
    /\ pc[r] = "list_find"
    /\ LET page == ListPage(loc[r].caller, req[r].query)
       IN  Suspend(r, IF page = <<>> THEN "list_count" ELSE "list_populate",
                   req[r], [loc[r] EXCEPT !.perf = page])
    /\ UNCHANGED <<users, perfs, nextId, issued, streak>>

\* populate's query on the documents of the page
ListPopulate(r) ==
    /\ pc[r] = "list_populate"
    /\ Suspend(r, "list_count", req[r],
               [loc[r] EXCEPT !.perf =
                   [k \in 1 .. Len(loc[r].perf) |-> Populate(loc[r].perf[k])]])
    /\ UNCHANGED <<users, perfs, nextId, issued, streak>>

\* countDocuments and the 200
ListCount(r) ==
    /\ pc[r] = "list_count"
    /\ LET total == Cardinality(FindFiltered(loc[r].caller, req[r].query))
       IN  Answer(r, req[r],
                  [status |-> 200, message |-> "-", token |-> NoToken,
                   data |-> {[performances |-> loc[r].perf,
                              page |-> PageOf(req[r].query),
                              limit |-> LimitOf(req[r].query),
                              total |-> total,
                              pages |-> Pages(total, LimitOf(req[r].query))]}])
    /\ UNCHANGED <<users, perfs, nextId, issued, streak>>

----------------------------------------------------------------------------
(* routes/auth: GET /api/auth/me *)

MeStart(r, token) ==
    /\ Protected(r, [NoReq EXCEPT !.op = "me", !.token = token], "me_find")
    /\ UNCHANGED <<users, perfs, nextId, issued, streak>>

\* User.findById(req.user.id) and the 200
MeFind(r) ==
    /\ pc[r] = "me_find"
    /\ Answer(r, req[r],
              IF FindUserById(loc[r].caller) = {}
              THEN Reply(500, "Erreur serveur")
              ELSE [status |-> 200, message |-> "-", token |-> NoToken,
                    data |-> {[email |-> users[loc[r].caller].email,
                               statut |-> users[loc[r].caller].statut]}])
    /\ UNCHANGED <<users, perfs, nextId, issued, streak>>

----------------------------------------------------------------------------
(* routes/auth: PUT /api/auth/profile *)

ProfileStart(r, token, body) ==
    /\ Protected(r, [NoReq EXCEPT !.op = "profile", !.token = token,
                                  !.body = body], "profile_update")
    /\ UNCHANGED <<users, perfs, nextId, issued, streak>>

\* the fields of a user the route names (of its five, the two of the model)
ProfileFields == {"nom", "poste"}

\* an update made of every field the body carries
ProfileSet_WholeBody(body) ==
    [f \in {g \in DOMAIN body : body[g] # "none"} |-> body[f]]

\* { ...(nom && { nom }), ...(poste && { poste }), ... }: the fields named
\* that the body carries
ProfileSet(body) ==
    [f \in {g \in ProfileFields : body[g] # "none"} |-> body[f]]

\* User.findByIdAndUpdate(id, update, { new: true, runValidators: true })
UpdateUser(id, update) ==
    [users EXCEPT ![id] = [f \in DOMAIN users[id] |->
                              IF f \in DOMAIN update THEN update[f]
                              ELSE users[id][f]]]

\* User.findByIdAndUpdate(req.user.id, { ...(nom && { nom }), ... }) and the
\* 200; reading user._id of no user throws
ProfileUpdate(r) ==
    /\ pc[r] = "profile_update"
    /\ LET id == loc[r].caller
       IN  IF FindUserById(id) = {}
           THEN /\ Answer(r, req[r], Reply(500, "Erreur serveur"))
                /\ UNCHANGED users
           ELSE /\ users' = UpdateUser(id, ProfileSet(req[r].body))
                /\ Answer(r, req[r],
                          [status |-> 200,
                           message |-> "Profil mis a jour avec succes",
                           token |-> NoToken,
                           data |-> {[nom |-> users'[id].nom,
                                      poste |-> users'[id].poste,
                                      email |-> users'[id].email]}])
    /\ UNCHANGED <<perfs, nextId, issued, streak>>

----------------------------------------------------------------------------
(* routes/auth: PUT /api/auth/change-password *)

PasswordStart(r, token, currentPassword, newPassword) ==
    /\ Protected(r, [NoReq EXCEPT !.op = "password", !.token = token,
                                  !.password = currentPassword,
                                  !.body = [newPassword |-> newPassword]],
                 "password_find")
    /\ UNCHANGED <<users, perfs, nextId, issued, streak>>

\* User.findById(req.user.id).select("+password"); calling comparePassword
\* of no user throws
PasswordFind(r) ==
    /\ pc[r] = "password_find"
    /\ LET id == loc[r].caller
       IN  IF FindUserById(id) = {}
           THEN Answer(r, req[r], Reply(500, "Erreur serveur"))
           ELSE Suspend(r, "password_save", req[r],
                        [loc[r] EXCEPT !.user = <<users[id]>>])
    /\ UNCHANGED <<users, perfs, nextId, issued, streak>>

\* the comparison with the current password, then user.password = newPassword
\* and user.save(): the password is a modified path whatever it was, and the
\* hook hashes it
PasswordSave(r) ==
    /\ pc[r] = "password_save"
    /\ LET doc == loc[r].user[1]
           id == loc[r].caller
       IN  IF ~comparePassword(doc, req[r].password)
           THEN /\ Answer(r, req[r], Reply(400, "Mot de passe actuel incorrect"))
                /\ UNCHANGED users
           ELSE IF FindUserById(id) = {}
           THEN /\ Answer(r, req[r], Reply(500, "Erreur serveur"))
                /\ UNCHANGED users
           ELSE /\ users' = [users EXCEPT ![id] =
                                hashPassword(
                                    SaveModified(users[id], doc,
                                        [doc EXCEPT !.password =
                                            Plain(req[r].body.newPassword)]))]
                /\ Answer(r, req[r],
                          Reply(200, "Mot de passe change avec succes"))
    /\ UNCHANGED <<perfs, nextId, issued, streak>>

----------------------------------------------------------------------------
(* scripts/seed: seedDatabase *)

\* seedUsers, by the fields of the model's documents
seedUsers ==
    << [nom |-> "Therese", poste |-> "Directrice Commerciale",
        email |-> "marie@wawtelecom.com", password |-> "password123"],
       [nom |-> "Ngom", poste |-> "Manager Commercial",
        email |-> "boura@wawtelecom.com", password |-> "password123"],
       [nom |-> "Fall", poste |-> "Commerciale",
        email |-> "binta@wawtelecom.com", password |-> "password123"] >>

\* the _ids the users collection hands out to the script's users, in order
SeedIds == <<"S1", "S2", "S3">>

\* the months generatePerformanceData runs through
SeedMonths == 1 .. 12

\* satisfaction = 3.5 + Math.random() * 1.5 is no integer: 17/4 is written
\* as the pair of its numerator and denominator
SeedSatisfaction == <<17, 4>>

\* an outcome of the draws of Math.random() for one month, with dossiersMAJ
\* (100 .. 199) at most totalDossiers (150 .. 249)
SeedDrawWithin ==
    [chiffreAffaires |-> 100000, objectifCA |-> 95000, nouveauxClients |-> 20,
     rdvRealises |-> 40, ventesRealisees |-> 24,
     dossiersMAJ |-> 120, totalDossiers |-> 200,
     evenements |-> 5, satisfaction |-> SeedSatisfaction, statut |-> "valide"]

\* an outcome with dossiersMAJ above totalDossiers
SeedDrawAbove ==
    [SeedDrawWithin EXCEPT !.dossiersMAJ = 180, !.totalDossiers = 160]

\* the draws of one call of generatePerformanceData, month by month: every
\* third month above, the others within
SeedDraws ==
    { [m \in SeedMonths |-> IF m % 3 = 0 THEN SeedDrawAbove
                                         ELSE SeedDrawWithin] }

\* generatePerformanceData(userId): one record per month of 2024, from the
\* draws of that month
generatePerformanceData(userId, draws) ==
    [m \in SeedMonths |->
        [f \in {"utilisateur", "annee", "mois"} \cup DOMAIN draws[m] |->
            IF f = "utilisateur" THEN userId
            ELSE IF f = "annee" THEN 2024
            ELSE IF f = "mois" THEN m
            ELSE draws[m][f]]]

\* the script goes on to its next await
SeedGoes(at, createdUsers) ==
    /\ pc' = [pc EXCEPT ![Seed] = at]
    /\ loc' = [loc EXCEPT ![Seed] = [NoLoc EXCEPT !.user = createdUsers]]

\* await User.deleteMany({})
SeedDeleteUsers ==
    /\ pc[Seed] = "idle"
    /\ users' = [u \in {} |-> NewUser("-", "-", "-")]
    /\ SeedGoes("seed_delete_performances", <<>>)
    /\ UNCHANGED <<perfs, nextId, issued, req, resp, streak>>

\* await Performance.deleteMany({})
SeedDeletePerformances ==
    /\ pc[Seed] = "seed_delete_performances"
    /\ perfs' = [i \in {} |-> 0]
    /\ SeedGoes("seed_create", <<>>)
    /\ UNCHANGED <<users, nextId, issued, req, resp, streak>>

\* await User.create(userData) for the next of seedUsers: the save hook
\* hashes the password and the schema's defaults apply; a duplicate key
\* error ends the script in its catch block
SeedCreateUser ==
    /\ pc[Seed] = "seed_create"
    /\ LET createdUsers == loc[Seed].user
           k == Len(createdUsers) + 1
           userData == seedUsers[k]
       IN  IF DuplicateEmail(userData.email)
           THEN /\ SeedGoes("done", <<>>)
                /\ UNCHANGED users
           ELSE /\ users' = [u \in DOMAIN users \cup {SeedIds[k]} |->
                               IF u = SeedIds[k]
                               THEN [NewUser(userData.email, userData.password,
                                             "utilisateur")
                                        EXCEPT !.nom = userData.nom,
                                               !.poste = userData.poste]
                               ELSE users[u]]
                /\ SeedGoes(IF k = Len(seedUsers) THEN "seed_insert"
                                                  ELSE "seed_create",
                            Append(createdUsers, SeedIds[k]))
    /\ UNCHANGED <<perfs, nextId, issued, req, resp, streak>>

\* await Performance.insertMany(performanceData) for the next of
\* createdUsers: the records are inserted in order under the unique index,
\* up to the first duplicate key; no save hook runs
SeedInsertMany(draws) ==
    /\ pc[Seed] = "seed_insert"
    /\ LET createdUsers == loc[Seed].user
           performanceData == generatePerformanceData(Head(createdUsers), draws)
           inserted == {m \in SeedMonths :
                           \A k \in 1 .. m : ~DuplicateKey(performanceData[k])}
       IN  /\ perfs' = [i \in DOMAIN perfs
                              \cup {nextId + m - 1 : m \in inserted} |->
                           IF i \in DOMAIN perfs THEN perfs[i]
                           ELSE Document(i, performanceData[i - nextId + 1])]
           /\ nextId' = nextId + Cardinality(inserted)
           /\ SeedGoes(IF inserted # SeedMonths \/ Len(createdUsers) = 1
                       THEN "done" ELSE "seed_insert",
                       IF inserted # SeedMonths THEN <<>>
                                                ELSE Tail(createdUsers))
    /\ UNCHANGED <<users, issued, req, resp, streak>>

----------------------------------------------------------------------------
(* the system *)

\* two registered users, each holding the token its registration returned,
\* and an empty performances collection
Init ==
    /\ users = [u \in UserIds |->
                  IF u = "A" THEN NewUser("a@waw.com", "pw1", "utilisateur")
                  ELSE NewUser("b@waw.com", "pw2", "manager")]
    /\ perfs = [i \in {} |-> 0]
    /\ nextId = 1
    /\ issued = UserIds
    /\ pc = [r \in Req \cup {Seed} |-> "idle"]
    /\ req = [r \in Req |-> NoReq]
    /\ loc = [r \in Req \cup {Admin, Seed} |-> NoLoc]
    /\ resp = [r \in Req |-> NoResp]
    /\ streak = [u \in UserIds |-> 0]

\* the tokens of the users a token was signed for, unexpired
Bearers == {[kind |-> "valid", id |-> u] : u \in issued}

\* a body that passes the route's validators, the schema's and the save hook
Accepted(b) ==
    /\ ~RouteError(b)
    /\ ~SchemaError(PerformanceData(b, "A"))
    /\ ~PreSaveError(PerformanceData(b, "A"))

\* the bodies of the requests that race: the periods of one year, the sets
\* of metrics that are accepted
RaceBodies == {b \in Bodies : b.periode.annee = 2024 /\ Accepted(b)}

\* the routes of routes/performance on single records, one request at a time
NextPerfSeq ==
    \/ \E r \in SeqReq, t \in Bearers, b \in Bodies : PostStart(r, t, b)
    \/ \E r \in SeqReq : PostFind(r)
    \/ \E r \in SeqReq : PostUpdate(r)
    \/ \E r \in SeqReq : PostUpdatePopulate(r)
    \/ \E r \in SeqReq : PostCreate(r)
    \/ \E r \in SeqReq : PostPopulate(r)
    \/ \E r \in SeqReq, t \in Bearers, i \in IdParams : GetStart(r, t, i)
    \/ \E r \in SeqReq : GetFind(r)
    \/ \E r \in SeqReq : GetPopulate(r)
    \/ \E r \in SeqReq, t \in Bearers, i \in IdParams : DeleteStart(r, t, i)
    \/ \E r \in SeqReq : DeleteFind(r)
    \/ \E r \in SeqReq : DeleteWrite(r)

SpecPerfSeq == Init /\ [][NextPerfSeq]_vars

\* the bodies of the writes in flight together: the racing bodies of one
\* period, and of the other period the one with statut valide
PerfBodies == {b \in RaceBodies : b.periode.mois = 3
                                  \/ b.mesures.statut = "valide"}

\* the writing routes of routes/performance, requests in flight together
NextPerf ==
    \/ \E r \in Req, t \in Bearers, b \in PerfBodies : PostStart(r, t, b)
    \/ \E r \in Req : PostFind(r)
    \/ \E r \in Req : PostUpdate(r)
    \/ \E r \in Req : PostUpdatePopulate(r)
    \/ \E r \in Req : PostCreate(r)
    \/ \E r \in Req : PostPopulate(r)
    \/ \E r \in Req, t \in Bearers, i \in 1 .. MaxRecords : DeleteStart(r, t, i)
    \/ \E r \in Req : DeleteFind(r)
    \/ \E r \in Req : DeleteWrite(r)

SpecPerf == Init /\ [][NextPerf]_vars

\* routes/auth, one request at a time: login and a protected route, and the
\* route behind authorizeRoles, with the administrator's writes to statut and
\* to the lockout in between
NextAuthSeq ==
    \/ \E r \in SeqReq, e \in LoginEmails, p \in Passwords : LoginFind(r, e, p)
    \/ \E r \in SeqReq : LoginFinish(r)
    \/ \E r \in SeqReq, t \in Tokens : MeStart(r, t)
    \/ \E r \in SeqReq : MeFind(r)
    \/ \E r \in SeqReq, t \in Tokens : AllStart(r, t)
    \/ \E r \in SeqReq : AllAuthorize(r)
    \/ \E r \in SeqReq : AllFind(r)
    \/ \E u \in UserIds, s \in Statuts : AdminSetStatut(u, s)
    \/ UnlockLoad("A")
    \/ UnlockAccount

SpecAuthSeq == Init /\ [][NextAuthSeq]_vars

\* the bodies and the query of the requests beside the script: one period
\* with the two sets of metrics the save hook accepts, and the listing with
\* no filter and no page
GateBodies == {b \in Bodies : /\ b.periode = [annee |-> 2024, mois |-> 3]
                              /\ Accepted(b)}
GateQueries == {q \in ListQueries : /\ q.annee = 0 /\ q.mois = 0
                                    /\ q.statut = "none" /\ q.page = 0}


\* the protected routes and the login, one request at a time, beside the
\* administrator's writes to statut and one run of the seeding script
NextGate ==
    \/ \E r \in SeqReq, e \in LoginEmails, p \in Passwords : LoginFind(r, e, p)
    \/ \E r \in SeqReq : LoginFinish(r)
    \/ \E r \in SeqReq, t \in Tokens : MeStart(r, t)
    \/ \E r \in SeqReq : MeFind(r)
    \/ \E r \in SeqReq, t \in Tokens : AllStart(r, t)
    \/ \E r \in SeqReq : AllAuthorize(r)
    \/ \E r \in SeqReq : AllFind(r)
    \/ \E r \in SeqReq : AllPopulate(r)
    \/ \E r \in SeqReq, t \in Bearers, b \in GateBodies : PostStart(r, t, b)
    \/ \E r \in SeqReq : PostFind(r)
    \/ \E r \in SeqReq : PostUpdate(r)
    \/ \E r \in SeqReq : PostUpdatePopulate(r)
    \/ \E r \in SeqReq : PostCreate(r)
    \/ \E r \in SeqReq : PostPopulate(r)
    \/ \E r \in SeqReq, t \in Bearers, q \in GateQueries : ListStart(r, t, q)
    \/ \E r \in SeqReq : ListFind(r)
    \/ \E r \in SeqReq : ListPopulate(r)
    \/ \E r \in SeqReq : ListCount(r)
    \/ \E u \in UserIds, s \in Statuts : AdminSetStatut(u, s)
    \/ SeedDeleteUsers
    \/ SeedDeletePerformances
    \/ SeedCreateUser
    \/ \E draws \in SeedDraws : SeedInsertMany(draws)

SpecGate == Init /\ [][NextGate]_vars

\* the login route with requests in flight together, and the unlock
NextAuth ==
    \/ \E r \in Req, e \in LoginEmails, p \in Passwords : LoginFind(r, e, p)
    \/ \E r \in Req : LoginFinish(r)
    \/ UnlockLoad("A")
    \/ UnlockAccount

SpecAuth == Init /\ [][NextAuth]_vars

\* the bodies of the records to list: the periods of one year, statut valide
AllBodies == {b \in RaceBodies : b.mesures.statut = "valide"}

\* the listing of all records, one request at a time, with the writes to
\* the performances collection, the administrator's writes to role, the
\* logins with a wrong password that block the account of A, and one run of
\* the seeding script
NextRole ==
    \/ \E r \in SeqReq, t \in Bearers : AllStart(r, t)
    \/ \E r \in SeqReq : AllAuthorize(r)
    \/ \E r \in SeqReq : AllFind(r)
    \/ \E r \in SeqReq : AllPopulate(r)
    \/ \E r \in SeqReq, t \in Bearers, b \in AllBodies : PostStart(r, t, b)
    \/ \E r \in SeqReq : PostFind(r)
    \/ \E r \in SeqReq : PostUpdate(r)
    \/ \E r \in SeqReq : PostUpdatePopulate(r)
    \/ \E r \in SeqReq : PostCreate(r)
    \/ \E r \in SeqReq : PostPopulate(r)
    \/ \E u \in UserIds, role \in Roles : AdminSetRole(u, role)
    \/ \E r \in SeqReq : LoginFind(r, "a@waw.com", "pw2")
    \/ \E r \in SeqReq : LoginFinish(r)
    \/ SeedDeleteUsers
    \/ SeedDeletePerformances
    \/ SeedCreateUser
    \/ \E draws \in SeedDraws : SeedInsertMany(draws)

SpecRole == Init /\ [][NextRole]_vars

\* the bodies for one period, with the sets of metrics that are rejected
KeyBodies == {b \in Bodies : b.periode = [annee |-> 2024, mois |-> 3]}

\* POST /api/performance alone, requests in flight together
NextRace ==
    \/ \E r \in Req, t \in Bearers, b \in KeyBodies : PostStart(r, t, b)
    \/ \E r \in Req : PostFind(r)
    \/ \E r \in Req : PostUpdate(r)
    \/ \E r \in Req : PostUpdatePopulate(r)
    \/ \E r \in Req : PostCreate(r)
    \/ \E r \in Req : PostPopulate(r)

SpecRace == Init /\ [][NextRace]_vars

\* bodies for the periods of one year, with and without a utilisateur of
\* their own, with the two sets of metrics the save hook accepts
OwnerBodies ==
    {b \in Bodies : b.periode.annee = 2024 /\ Accepted(b)}
    \cup {[b EXCEPT !.utilisateur = "B"] :
             b \in {c \in Bodies : /\ c.periode.annee = 2024
                                   /\ Accepted(c)
                                   /\ c.mesures.chiffreAffaires = 100}}

\* POST /api/performance by the two users, requests in flight together
NextOwner ==
    \/ \E r \in Req, t \in Bearers, b \in OwnerBodies : PostStart(r, t, b)
    \/ \E r \in Req : PostFind(r)
    \/ \E r \in Req : PostUpdate(r)
    \/ \E r \in Req : PostUpdatePopulate(r)
    \/ \E r \in Req : PostCreate(r)
    \/ \E r \in Req : PostPopulate(r)

SpecOwner == Init /\ [][NextOwner]_vars

\* the bodies the save hook accepts, of every period
ReadBodies == {b \in Bodies : Accepted(b)}

\* the summary over the stores that POST builds, one request at a time
NextRead ==
    \/ \E r \in SeqReq, t \in Bearers, b \in ReadBodies : PostStart(r, t, b)
    \/ \E r \in SeqReq : PostFind(r)
    \/ \E r \in SeqReq : PostUpdate(r)
    \/ \E r \in SeqReq : PostUpdatePopulate(r)
    \/ \E r \in SeqReq : PostCreate(r)
    \/ \E r \in SeqReq : PostPopulate(r)
    \/ \E r \in SeqReq, t \in Bearers, q \in StatsQueries : StatsStart(r, t, q)
    \/ \E r \in SeqReq : StatsAggregate(r)

SpecRead == Init /\ [][NextRead]_vars

\* the reads of single records over the stores that POST builds, one
\* request at a time, beside one run of the seeding script
NextGet ==
    \/ \E r \in SeqReq, t \in Bearers, b \in AllBodies : PostStart(r, t, b)
    \/ \E r \in SeqReq : PostFind(r)
    \/ \E r \in SeqReq : PostUpdate(r)
    \/ \E r \in SeqReq : PostUpdatePopulate(r)
    \/ \E r \in SeqReq : PostCreate(r)
    \/ \E r \in SeqReq : PostPopulate(r)
    \/ \E r \in SeqReq, t \in Bearers, i \in IdParams : GetStart(r, t, i)
    \/ \E r \in SeqReq : GetFind(r)
    \/ \E r \in SeqReq : GetPopulate(r)
    \/ SeedDeleteUsers
    \/ SeedDeletePerformances
    \/ SeedCreateUser
    \/ \E draws \in SeedDraws : SeedInsertMany(draws)

SpecGet == Init /\ [][NextGet]_vars

\* the listing over the stores that POST builds, one request at a time,
\* beside one run of the seeding script
NextList ==
    \/ \E r \in SeqReq, t \in Bearers, b \in ReadBodies : PostStart(r, t, b)
    \/ \E r \in SeqReq : PostFind(r)
    \/ \E r \in SeqReq : PostUpdate(r)
    \/ \E r \in SeqReq : PostUpdatePopulate(r)
    \/ \E r \in SeqReq : PostCreate(r)
    \/ \E r \in SeqReq : PostPopulate(r)
    \/ \E r \in SeqReq, t \in Bearers, q \in ListQueries : ListStart(r, t, q)
    \/ \E r \in SeqReq : ListFind(r)
    \/ \E r \in SeqReq : ListPopulate(r)
    \/ \E r \in SeqReq : ListCount(r)
    \/ SeedDeleteUsers
    \/ SeedDeletePerformances
    \/ SeedCreateUser
    \/ \E draws \in SeedDraws : SeedInsertMany(draws)

SpecList == Init /\ [][NextList]_vars

\* the requests that write to the account of A, in flight together: a login
\* in either slot, a profile update or a password change (to pw2) in the
\* second, and the administrator's unlock
NextLock ==
    \/ \E r \in Req, p \in Passwords : LoginFind(r, "a@waw.com", p)
    \/ \E r \in Req : LoginFinish(r)
    \/ \E b \in NomBodies :
          ProfileStart("r2", [kind |-> "valid", id |-> "A"], b)
    \/ \E r \in Req : ProfileUpdate(r)
    \/ \E p \in Passwords :
          PasswordStart("r2", [kind |-> "valid", id |-> "A"], p, "pw2")
    \/ \E r \in Req : PasswordFind(r)
    \/ \E r \in Req : PasswordSave(r)
    \/ UnlockLoad("A")
    \/ UnlockAccount

SpecLock == Init /\ [][NextLock]_vars

\* login and password change, one request at a time
NextAccountSeq ==
    \/ \E r \in SeqReq, e \in Emails, p \in Passwords : LoginFind(r, e, p)
    \/ \E r \in SeqReq : LoginFinish(r)
    \/ \E r \in SeqReq, t \in Bearers, p, q \in Passwords :
          PasswordStart(r, t, p, q)
    \/ \E r \in SeqReq : PasswordFind(r)
    \/ \E r \in SeqReq : PasswordSave(r)

SpecAccountSeq == Init /\ [][NextAccountSeq]_vars

\* the bodies of a profile update that carry a nom and an email at most
EmailBodies == {b \in ProfileBodies : b.poste = "none" /\ b.role = "none"}

\* registration and profile update, requests in flight together
NextDirectory ==
    \/ \E r \in Req, e \in MixedCaseEmails : RegisterFind(r, e, "pw1", "none")
    \/ \E r \in Req : RegisterCreate(r)
    \/ \E r \in Req, t \in Bearers, b \in EmailBodies : ProfileStart(r, t, b)
    \/ \E r \in Req : ProfileUpdate(r)

SpecDirectory == Init /\ [][NextDirectory]_vars

\* the bodies of a profile update that carry a role at most
RoleBodies ==
    {b \in ProfileBodies : b.nom = "none" /\ b.poste = "none" /\ b.email = "none"}

\* what a client without an account can send, one request at a time:
\* register, then login, profile update, password change and the listing of
\* all records with the tokens it was given
NextPublic ==
    \/ \E r \in SeqReq, e \in {"a@waw.com", "x@waw.com"}, role \in BodyRoles :
          RegisterFind(r, e, "pw1", role)
    \/ \E r \in SeqReq : RegisterCreate(r)
    \/ \E r \in SeqReq, e \in {"a@waw.com", "x@waw.com"}, p \in Passwords :
          LoginFind(r, e, p)
    \/ \E r \in SeqReq : LoginFinish(r)
    \/ \E r \in SeqReq, t \in Bearers, b \in RoleBodies : ProfileStart(r, t, b)
    \/ \E r \in SeqReq : ProfileUpdate(r)
    \/ \E r \in SeqReq, t \in Bearers, p, q \in Passwords :
          PasswordStart(r, t, p, q)
    \/ \E r \in SeqReq : PasswordFind(r)
    \/ \E r \in SeqReq : PasswordSave(r)
    \/ \E r \in SeqReq, t \in Bearers : AllStart(r, t)
    \/ \E r \in SeqReq : AllAuthorize(r)
    \/ \E r \in SeqReq : AllFind(r)

SpecPublic == Init /\ [][NextPublic]_vars

\* login and profile update, one request at a time
NextProfileSeq ==
    \/ \E r \in SeqReq, e \in Emails, p \in Passwords : LoginFind(r, e, p)
    \/ \E r \in SeqReq : LoginFinish(r)
    \/ \E r \in SeqReq, t \in Bearers, b \in ProfileBodies : ProfileStart(r, t, b)
    \/ \E r \in SeqReq : ProfileUpdate(r)

SpecProfileSeq == Init /\ [][NextProfileSeq]_vars

\* the registrations, requests in flight together
NextRegister ==
    \/ \E r \in Req, e \in RegisterEmails, p \in Passwords, role \in BodyRoles :
          RegisterFind(r, e, p, role)
    \/ \E r \in Req : RegisterCreate(r)

SpecRegister == Init /\ [][NextRegister]_vars

----------------------------------------------------------------------------
(* properties *)

\* in this step slot r takes up a request for route op
Starts(r, op) ==
    /\ Free(r)
    /\ req'[r].op = op
    /\ <<pc[r], req[r], resp[r]>>' # <<pc[r], req[r], resp[r]>>

\* in this step slot r's request to a protected route is answered by protect
\* with this status and message
Refused(r, status, message) ==
    pc'[r] = "done" /\ resp'[r] = Reply(status, message)

\* in this step slot r takes up a login request for the account of user u
StartsLogin(r, u) == Starts(r, "login") /\ req'[r].email = users[u].email

\* C1: when five login requests with a wrong password have been answered in a
\* row for an active account, one after the other, the stored account is
\* blocked, and the next login request for it is answered 423 without a
\* token, whatever its password.
C1_LockoutAfterFive ==
    /\ [](\A u \in DOMAIN users :
            (streak[u] >= MaxLoginAttempts /\ users[u].statut = "actif")
                => users[u].compteBloque)
    /\ [][\A r \in Req, u \in DOMAIN users :
            ( /\ streak[u] >= MaxLoginAttempts
              /\ users[u].statut = "actif"
              /\ StartsLogin(r, u) )
            => /\ pc'[r] = "done"
               /\ resp'[r].status = 423
               /\ resp'[r].token = NoToken]_vars

\* a sixth login, with the right password, was answered 423 on the account
\* that five failures blocked
C1_Witness ==
    \E r \in Req :
        /\ pc[r] = "done"
        /\ req[r].op = "login"
        /\ req[r].email = users["A"].email
        /\ comparePassword(users["A"], req[r].password)
        /\ resp[r].status = 423
        /\ users["A"].statut = "actif"
        /\ users["A"].compteBloque
        /\ users["A"].tentativesConnexion = MaxLoginAttempts

\* the same key of the unique index
SameKey(a, b) ==
    /\ a.utilisateur = b.utilisateur
    /\ a.annee = b.annee
    /\ a.mois = b.mois

\* C2: the store holds at most one performance record per (utilisateur,
\* periode.annee, periode.mois), whatever POST and DELETE requests interleave.
C2_UniquePeriod ==
    \A i, j \in DOMAIN perfs : SameKey(perfs[i], perfs[j]) => i = j

\* two POST requests raced for one key: the loser was told of the duplicate
C2_Witness ==
    \E r \in Req :
        /\ pc[r] = "done"
        /\ req[r].op = "post"
        /\ resp[r].status = 400
        /\ FindPerformance(req[r].token.id, req[r].body.periode) # {}

\* in this step slot r's POST does its write: findByIdAndUpdate and its
\* answer, or Performance.create, with the catch block's answer when it rejects
PostWrites(r) == pc[r] = "post_write" /\ pc'[r] # "post_write"

\* the write of this step is reported as a success: the branch goes on to
\* its populate and its 200 or 201, or the 200 is sent with no populate
PostAccepted(r) ==
    \/ pc'[r] \in {"post_update_populate", "post_populate"}
    \/ pc'[r] = "done" /\ resp'[r].status = 200

\* the write of this step is answered with an error and writes nothing
PostRejected(r) ==
    /\ pc'[r] = "done"
    /\ resp'[r].status \notin {200, 201}
    /\ perfs' = perfs

\* an update branch past its write is answered 200 by its next step, which
\* writes nothing
UpdateIsAnswered200 ==
    \A r \in Req :
        pc[r] = "post_update_populate" /\ pc'[r] # "post_update_populate"
        => /\ pc'[r] = "done"
           /\ resp'[r].status = 200
           /\ perfs' = perfs
           /\ nextId' = nextId

\* a create branch past its insert is answered 201 by its next step, which
\* writes nothing
CreateIsAnswered201 ==
    \A r \in Req :
        pc[r] = "post_populate" /\ pc'[r] # "post_populate"
        => /\ pc'[r] = "done"
           /\ resp'[r].status = 201
           /\ perfs' = perfs
           /\ nextId' = nextId

\* C3: a POST whose payload has ventesRealisees > rdvRealises or dossiersMAJ >
\* totalDossiers is rejected and writes nothing, on the create and on the
\* update path, so that every stored record satisfies both rules.
C3_CrossFieldRejected ==
    /\ [][\A r \in Req :
            (PostWrites(r)
             /\ PreSaveError(PerformanceData(req[r].body, loc[r].caller)))
            => /\ perfs' = perfs
               /\ ~PostAccepted(r)]_vars
    /\ [](\A i \in DOMAIN perfs : ~PreSaveError(perfs[i]))

\* C4: a request with an authentic, unexpired token for user A passes protect
\* (next is called with A's identity) only if A is then stored, actif and not
\* blocked; when A is stored inactif it is answered 403, and when A is actif
\* and blocked 423.
C4_GateRechecksState ==
    [][\A r \in Req :
         (Starts(r, "me") /\ req'[r].token.kind = "valid")
         => LET a == req'[r].token.id
            IN  /\ pc'[r] # "done"
                     => /\ a \in DOMAIN users
                        /\ users[a].statut = "actif"
                        /\ ~users[a].compteBloque
                        /\ loc'[r].caller = a
                /\ (a \in DOMAIN users /\ users[a].statut # "actif")
                     => (pc'[r] = "done" /\ resp'[r].status = 403)
                /\ ( /\ a \in DOMAIN users
                     /\ users[a].statut = "actif"
                     /\ users[a].compteBloque )
                     => (pc'[r] = "done" /\ resp'[r].status = 423)]_vars

\* the token of a user since made inactif was presented and answered 403
C4_Witness ==
    \E r \in Req :
        /\ pc[r] = "done"
        /\ req[r].op = "me"
        /\ req[r].token.kind = "valid"
        /\ req[r].token.id \in issued
        /\ req[r].token.id \in DOMAIN users
        /\ users[req[r].token.id].statut = "inactif"
        /\ resp[r].status = 403

\* found is the list of all the stored records in descending order of year
\* then month, as the sequence of its runs of equal period
IsAllSorted(found) ==
    /\ UNION {found[k] : k \in 1 .. Len(found)} = {perfs[i] : i \in DOMAIN perfs}
    /\ \A k \in 1 .. Len(found) :
          /\ found[k] # {}
          /\ \A d, e \in found[k] : d.annee = e.annee /\ d.mois = e.mois
    /\ \A k, l \in 1 .. Len(found) :
          k < l => \A d \in found[k], e \in found[l] :
                      \/ d.annee > e.annee
                      \/ d.annee = e.annee /\ d.mois > e.mois

\* record d as an answer carries it: with its owner, or null for an owner
\* that is stored no more
WithOwner(d) ==
    [d EXCEPT !.utilisateur = IF @ \in DOMAIN users THEN @ ELSE Null]

\* what GET /performance/all does behind protect: authorizeRoles lets a
\* caller pass only when its stored role is admin or manager and answers 403
\* without data to one whose stored role is utilisateur; the find takes all
\* the records, in descending order of period; the 200 carries them, each
\* with its owner
AllBehindProtect ==
    \A r \in Req :
        /\ (pc[r] = "all_authorize" /\ pc'[r] # "all_authorize")
           => LET c == loc[r].caller
              IN  /\ pc'[r] # "done"
                       => /\ pc'[r] = "all_find"
                          /\ c \in DOMAIN users
                          /\ users[c].role \in {"admin", "manager"}
                  /\ (c \in DOMAIN users /\ users[c].role = "utilisateur")
                       => /\ pc'[r] = "done"
                          /\ resp'[r].status = 403
                          /\ resp'[r].data = {}
        /\ (pc[r] = "all_find" /\ pc'[r] # "all_find")
           => IF pc'[r] = "done"
              THEN /\ DOMAIN perfs = {}
                   /\ resp'[r].status = 200
                   /\ resp'[r].data = {<<>>}
              ELSE /\ pc'[r] = "all_populate"
                   /\ IsAllSorted(loc'[r].perf)
        /\ (pc[r] = "all_populate" /\ pc'[r] # "all_populate")
           => /\ pc'[r] = "done"
              /\ resp'[r].status = 200
              /\ resp'[r].data =
                    {[k \in 1 .. Len(loc[r].perf) |->
                         {WithOwner(d) : d \in loc[r].perf[k]}]}

\* no answer of GET /performance/all other than the 200 carries data
AllDataOnlyIn200 ==
    \A r \in Req :
        (pc[r] = "done" /\ req[r].op = "all" /\ resp[r].status # 200)
            => resp[r].data = {}

\* C5 as stated: GET /performance/all returns the records, all of them, only
\* when the role stored for the caller when the request reads it is admin or
\* manager; every caller whose stored role is utilisateur is answered 403
\* and gets no record, also when its token was signed for a manager.
C5_AsStated ==
    /\ [][AllBehindProtect]_vars
    /\ [][\A r \in Req :
            (/\ Starts(r, "all")
             /\ req'[r].token.kind = "valid"
             /\ req'[r].token.id \in DOMAIN users
             /\ users[req'[r].token.id].role = "utilisateur"
             /\ pc'[r] = "done")
            => resp'[r].status = 403 /\ resp'[r].data = {}]_vars
    /\ []AllDataOnlyIn200

\* C5 amended: as stated, but a caller whose stored role is utilisateur is
\* answered 403 when its account is not blocked, by protect when it is
\* inactif and by authorizeRoles when it is actif, and 423 when its account
\* is actif and blocked; in every case it gets no record.
C5_AllNeedsStoredRole ==
    /\ [][AllBehindProtect]_vars
    /\ [][\A r \in Req :
            (/\ Starts(r, "all")
             /\ req'[r].token.kind = "valid"
             /\ req'[r].token.id \in DOMAIN users
             /\ users[req'[r].token.id].role = "utilisateur")
            => LET u == users[req'[r].token.id]
               IN  IF u.statut # "actif"
                   THEN Refused(r, 403, "Compte inactif")
                   ELSE IF u.compteBloque
                   THEN Refused(r, 423, "Compte bloque")
                   ELSE pc'[r] = "all_authorize"]_vars
    /\ []AllDataOnlyIn200

\* B, a manager when its token was signed, is stored as utilisateur and is
\* refused the listing of a store that holds records
C5_Witness ==
    \E r \in Req :
        /\ pc[r] = "done"
        /\ req[r].op = "all"
        /\ req[r].token = [kind |-> "valid", id |-> "B"]
        /\ "B" \in DOMAIN users
        /\ users["B"].role = "utilisateur"
        /\ users["B"].statut = "actif"
        /\ resp[r].status = 403
        /\ resp[r].data = {}
        /\ DOMAIN perfs # {}

\* C6: GET /performance/:id returns the record only to its owner; for a
\* record found that is stored for another user every caller, admin and
\* manager included, gets 403; 404 is answered only when no record has the
\* id.
C6_GetOwnerOnly ==
    [][\A r \in Req :
         /\ (pc[r] = "get_find" /\ pc'[r] = "done")
            => /\ resp'[r].status # 200
               /\ resp'[r].data = {}
               /\ resp'[r].status = 404 => req[r].id \notin DOMAIN perfs
         /\ (pc[r] = "get_populate" /\ pc'[r] # "get_populate")
            => LET c == loc[r].caller
                   found == loc[r].perf[1]
               IN  /\ pc'[r] = "done"
                   /\ resp'[r].status # 404
                   /\ resp'[r].status = 200
                        => /\ found.utilisateur = c
                           /\ resp'[r].data = {WithOwner(found)}
                   /\ resp'[r].status # 200 => resp'[r].data = {}
                   /\ found.utilisateur # c => resp'[r].status = 403]_vars

\* C7: a record leaves the store only by the DELETE of its owner, and a
\* DELETE answered 403 or 404 leaves the store as it was.
C7_DeleteOwnerOnly ==
    /\ [][\A i \in DOMAIN perfs :
            i \notin DOMAIN perfs'
            => \E r \in Req :
                  /\ pc[r] = "delete_write"
                  /\ pc'[r] = "done"
                  /\ req[r].id = i
                  /\ req[r].token.id = perfs[i].utilisateur
                  /\ resp'[r].status = 200]_vars
    /\ [][\A r \in Req :
            (pc[r] = "delete_find" /\ pc'[r] = "done"
             /\ resp'[r].status \in {403, 404})
            => perfs' = perfs]_vars

\* B asked to delete a record of A, was answered 403, and the record is there
C7_Witness ==
    \E r \in Req :
        /\ pc[r] = "done"
        /\ req[r].op = "delete"
        /\ req[r].token.id = "B"
        /\ req[r].id \in DOMAIN perfs
        /\ perfs[req[r].id].utilisateur = "A"
        /\ resp[r].status = 403

\* C8: a login answered 200 leaves the stored tentativesConnexion at 0 and
\* compteBloque and dateBlocage as they were, also when a failed login for
\* the account is in flight with it.
C8_SuccessResetsCounter ==
    [][\A r \in Req :
         (pc[r] = "login_compare" /\ pc'[r] = "done" /\ resp'[r].status = 200)
         => LET id == loc[r].caller
            IN  /\ users'[id].tentativesConnexion = 0
                /\ users'[id].compteBloque = users[id].compteBloque
                /\ users'[id].dateBlocage = users[id].dateBlocage]_vars

\* C9: a login request for an account stored as blocked is answered 423 with
\* the one message, without a token, and leaves the users as they were,
\* whatever its password: the answer and the stored state are the same for
\* the right password and for a wrong one.
C9_BlockedHidesPassword ==
    [][\A r \in Req, u \in DOMAIN users :
         (users[u].compteBloque /\ StartsLogin(r, u))
         => /\ pc'[r] = "done"
            /\ resp'[r] = Reply(423, "Compte bloque. Contactez l'administrateur.")
            /\ users' = users
            /\ issued' = issued]_vars

\* two logins for the blocked account of A, one with the right and one with
\* a wrong password, got the same answer
C9_Witness ==
    \E r1, r2 \in Req :
        /\ pc[r1] = "done" /\ pc[r2] = "done"
        /\ req[r1].op = "login" /\ req[r2].op = "login"
        /\ req[r1].email = users["A"].email
        /\ req[r2].email = users["A"].email
        /\ comparePassword(users["A"], req[r1].password)
        /\ ~comparePassword(users["A"], req[r2].password)
        /\ users["A"].compteBloque
        /\ resp[r1].status = 423
        /\ resp[r1] = resp[r2]

\* the update branch of C10: the record of the key keeps its _id and holds
\* the submitted values, no record is added or removed, and the request goes
\* on to its 200
UpdatedInPlace(r, existing, data) ==
    /\ pc'[r] = "post_update_populate"
    /\ DOMAIN perfs' = DOMAIN perfs
    /\ \A i \in existing : perfs'[i] = Document(i, data)
    /\ \A i \in DOMAIN perfs \ existing : perfs'[i] = perfs[i]

\* the create branch of C10: one record is added, holding the submitted
\* values, the others stay, and the request goes on to its 201
CreatedOne(r, data) ==
    /\ pc'[r] = "post_populate"
    /\ \E i \in DOMAIN perfs' \ DOMAIN perfs :
          /\ DOMAIN perfs' = DOMAIN perfs \cup {i}
          /\ perfs'[i] = Document(i, data)
    /\ \A i \in DOMAIN perfs : perfs'[i] = perfs[i]

\* C10 as stated: with no other request in between, a POST for a key the
\* caller has a record for answers 200 and replaces the record's fields in
\* place; a POST for a key the caller has no record for answers 201 and adds
\* exactly one record.
C10_UpsertAsStated ==
    /\ [][\A r \in Req :
            PostWrites(r)
            => LET data == PerformanceData(req[r].body, loc[r].caller)
                   existing == FindPerformance(loc[r].caller,
                                               req[r].body.periode)
               IN  IF existing # {}
                   THEN UpdatedInPlace(r, existing, data)
                   ELSE CreatedOne(r, data)]_vars
    /\ [][UpdateIsAnswered200 /\ CreateIsAnswered201]_vars

\* C10 amended: as stated, for a payload that passes the schema's validators
\* and, on the create path, has ventesRealisees <= rdvRealises and dossiersMAJ
\* <= totalDossiers; a POST whose payload does not is answered with an error
\* and writes nothing.
C10_Upsert ==
    /\ [][\A r \in Req :
            PostWrites(r)
            => LET data == PerformanceData(req[r].body, loc[r].caller)
                   existing == FindPerformance(loc[r].caller,
                                               req[r].body.periode)
               IN  IF SchemaError(data)
                   THEN PostRejected(r)
                   ELSE IF existing # {}
                   THEN UpdatedInPlace(r, existing, data)
                   ELSE IF ~PreSaveError(data)
                   THEN CreatedOne(r, data)
                   ELSE PostRejected(r)]_vars
    /\ [][UpdateIsAnswered200 /\ CreateIsAnswered201]_vars

\* a POST was answered 200 and the record created first under _id 1 holds
\* the values it submitted
C10_Witness ==
    \E r \in Req :
        /\ pc[r] = "done"
        /\ req[r].op = "post"
        /\ resp[r].status = 200
        /\ 1 \in DOMAIN perfs
        /\ nextId = 2
        /\ perfs[1] = Document(1, PerformanceData(req[r].body, req[r].token.id))
        /\ resp[r].data = {perfs[1]}

\* slots r and q are both past the lookup of one key of one caller, and both
\* found nothing
Racing(r, q) ==
    /\ r # q
    /\ pc[r] = "post_write" /\ pc[q] = "post_write"
    /\ loc[r].perf = <<>> /\ loc[q].perf = <<>>
    /\ loc[r].caller = loc[q].caller
    /\ req[r].body.periode = req[q].body.periode

\* slot r created the record of the key that slot q looked up and did not
\* find, and is answered 201 or about to be
RaceWon(r, q) ==
    /\ r # q
    /\ req[r].op = "post"
    /\ pc[r] = "post_populate" \/ (pc[r] = "done" /\ resp[r].status = 201)
    /\ pc[q] = "post_write" /\ loc[q].perf = <<>>
    /\ req[r].token.id = loc[q].caller
    /\ req[r].body.periode = req[q].body.periode

\* the payload of slot r's POST passes the route's validators and the
\* schema's, and satisfies the two cross-field rules
ValidPayload(r) ==
    /\ ~RouteError(req[r].body)
    /\ ~SchemaError(PerformanceData(req[r].body, req[r].token.id))
    /\ ~PreSaveError(PerformanceData(req[r].body, req[r].token.id))

\* the second writer of a race is told of the duplicate and one record of
\* the key is stored
ToldOfDuplicate(q) ==
    /\ resp'[q] = Reply(400, "Des donnees existent deja pour cette periode")
    /\ perfs' = perfs
    /\ Cardinality(FindPerformance(loc[q].caller, req[q].body.periode)) = 1

\* C11 as stated: when two POSTs of one user for one key have both looked the
\* key up before either writes, the first to write creates the record and is
\* answered 201, the other is answered 400 with the duplicate-period message,
\* and one record of the key is stored.
C11_RaceAsStated ==
    /\ [][\A r, q \in Req :
            (Racing(r, q) /\ PostWrites(r))
            => CreatedOne(r, PerformanceData(req[r].body, loc[r].caller))]_vars
    /\ [][\A r, q \in Req :
            (RaceWon(r, q) /\ PostWrites(q)) => ToldOfDuplicate(q)]_vars
    /\ [][CreateIsAnswered201]_vars

\* C11 amended: as stated, for two POSTs whose payloads both pass the route's
\* validators and the schema's and have ventesRealisees <= rdvRealises and
\* dossiersMAJ <= totalDossiers.
C11_RaceOneWinner ==
    /\ [][\A r, q \in Req :
            (Racing(r, q) /\ ValidPayload(r) /\ ValidPayload(q) /\ PostWrites(r))
            => CreatedOne(r, PerformanceData(req[r].body, loc[r].caller))]_vars
    /\ [][\A r, q \in Req :
            (RaceWon(r, q) /\ ValidPayload(q) /\ PostWrites(q))
            => ToldOfDuplicate(q)]_vars
    /\ [][CreateIsAnswered201]_vars

\* two POSTs of A for one key were in flight together: one was answered 201,
\* the other 400, and the key has its one record
C11_Witness ==
    \E r, q \in Req :
        /\ r # q
        /\ pc[r] = "done" /\ pc[q] = "done"
        /\ req[r].op = "post" /\ req[q].op = "post"
        /\ req[r].token.id = "A" /\ req[q].token.id = "A"
        /\ req[r].body.periode = req[q].body.periode
        /\ resp[r].status = 201
        /\ resp[q] = Reply(400, "Des donnees existent deja pour cette periode")
        /\ Cardinality(FindPerformance("A", req[r].body.periode)) = 1

\* in this step slot r's registration is answered
RegisterAnswers(r) ==
    /\ pc'[r] = "done"
    /\ req'[r].op = "register"
    /\ Starts(r, "register") \/ pc[r] = "register_create"

\* C12: a registration answered while a stored user holds its email is
\* answered 400 with the duplicate-email message and creates no user, also
\* when another registration for the email was in flight with it; no two
\* stored users hold one email.
C12_DuplicateEmailRejected ==
    /\ [][\A r \in Req :
            (RegisterAnswers(r) /\ FindUserByEmail(req'[r].email) # {})
            => /\ resp'[r] =
                     Reply(400, "Un utilisateur avec cet email existe deja")
               /\ users' = users]_vars
    /\ [](\A u, v \in DOMAIN users : users[u].email = users[v].email => u = v)

\* in this step slot r's summary request is answered
StatsAnswers(r) == pc[r] = "stats_aggregate" /\ pc'[r] = "done"

\* the stored records a summary for the caller and the query is about: the
\* caller's own, of the year (and of the month when given), statut valide
ValidOf(caller, query) ==
    {i \in DOMAIN perfs :
        /\ perfs[i].utilisateur = caller
        /\ perfs[i].annee = query.annee
        /\ query.mois = 0 \/ perfs[i].mois = query.mois
        /\ perfs[i].statut = "valide"}

\* the summary with every total and rate 0
ZeroSummary ==
    [totalCA |-> 0, totalObjectif |-> 0, totalClients |-> 0, totalRDV |-> 0,
     totalVentes |-> 0, totalEvenements |-> 0, satisfactionMoyenne |-> 0,
     count |-> 0, tauxTransformation |-> 0, tauxObjectif |-> 0]

\* C13: a summary request for a user and a year (and month) for which the
\* store holds no record with statut valide is answered 200 with every total,
\* the count and both rates 0, and changes nothing stored.
C13_EmptySummaryIsZero ==
    [][\A r \in Req :
         (StatsAnswers(r) /\ ValidOf(loc[r].caller, req[r].query) = {})
         => /\ resp'[r].status = 200
            /\ resp'[r].data = {ZeroSummary}
            /\ perfs' = perfs
            /\ users' = users]_vars

\* A, whose only record of 2024 is a brouillon, asked for the summary of 2024
\* and was answered with the zeros
C13_Witness ==
    \E r \in Req :
        /\ pc[r] = "done"
        /\ req[r].op = "stats"
        /\ req[r].token.id = "A"
        /\ req[r].query.annee = 2024
        /\ \E i \in DOMAIN perfs : /\ perfs[i].utilisateur = "A"
                                    /\ perfs[i].annee = 2024
                                    /\ perfs[i].statut = "brouillon"
        /\ ValidOf("A", req[r].query) = {}
        /\ resp[r].status = 200
        /\ resp[r].data = {ZeroSummary}

\* round(100 * a / b) for integers a >= 0 and b >= 1, a half going up
RoundedPercent(a, b) == (200 * a + b) \div (2 * b)

\* C14: a summary request by U for year Y (and month M) is answered with the
\* sums over U's stored records of Y (and M) with statut valide, their count,
\* tauxTransformation = round(100 * totalVentes / totalRDV) and tauxObjectif =
\* round(100 * totalCA / totalObjectif), each 0 when its denominator is 0.
C14_SummaryIsSumOfValid ==
    [][\A r \in Req :
         StatsAnswers(r)
         => LET S == ValidOf(loc[r].caller, req[r].query)
                d == CHOOSE x \in resp'[r].data : TRUE
                rdv == SumOf(S, "rdvRealises")
                objectif == SumOf(S, "objectifCA")
            IN  /\ resp'[r].status = 200
                /\ d.totalCA = SumOf(S, "chiffreAffaires")
                /\ d.totalObjectif = objectif
                /\ d.totalClients = SumOf(S, "nouveauxClients")
                /\ d.totalRDV = rdv
                /\ d.totalVentes = SumOf(S, "ventesRealisees")
                /\ d.totalEvenements = SumOf(S, "evenements")
                /\ d.count = Cardinality(S)
                /\ d.tauxTransformation =
                      IF rdv = 0 THEN 0
                      ELSE RoundedPercent(SumOf(S, "ventesRealisees"), rdv)
                /\ d.tauxObjectif =
                      IF objectif = 0 THEN 0
                      ELSE RoundedPercent(SumOf(S, "chiffreAffaires"), objectif)]_vars

\* C15: for every stored record tauxTransformation = round(100 *
\* ventesRealisees / rdvRealises), completudeDossiers = round(100 *
\* dossiersMAJ / totalDossiers) and tauxObjectif = round(100 *
\* chiffreAffaires / objectifCA), each 0 when its denominator is 0, and
\* tauxTransformation and completudeDossiers lie in 0 .. 100.
C15_RatesAsStated ==
    \A i \in DOMAIN perfs :
        LET d == perfs[i]
        IN  /\ tauxTransformation(d) =
                  IF d.rdvRealises = 0 THEN 0
                  ELSE RoundedPercent(d.ventesRealisees, d.rdvRealises)
            /\ completudeDossiers(d) =
                  IF d.totalDossiers = 0 THEN 0
                  ELSE RoundedPercent(d.dossiersMAJ, d.totalDossiers)
            /\ tauxObjectif(d) =
                  IF d.objectifCA = 0 THEN 0
                  ELSE RoundedPercent(d.chiffreAffaires, d.objectifCA)
            /\ tauxTransformation(d) \in 0 .. 100
            /\ completudeDossiers(d) \in 0 .. 100

\* C16: a request to a protected route is answered with the failure of the
\* first check that fails, in the order missing token, forged or expired
\* token, user not found, account inactif, account blocked, role: a forged
\* token gets the invalid-token answer and an expired one the expired-token
\* answer whatever the user's state, a valid token of a user both inactif and
\* blocked gets 403, and the role is tested only for a caller that passed
\* every other check and is still stored.  The answer is a function of the
\* token and the store.
C16_FirstFailingCheck ==
    /\ [][\A r \in Req :
            (Starts(r, "me") \/ Starts(r, "all"))
            => LET t == req'[r].token
                   a == t.id
               IN  /\ t.kind = "missing"
                        => Refused(r, 401, "Acces non autorise - Token manquant")
                   /\ t.kind = "forged" => Refused(r, 401, "Token invalide")
                   /\ t.kind = "expired" => Refused(r, 401, "Token expire")
                   /\ (t.kind = "valid" /\ a \notin DOMAIN users)
                        => Refused(r, 401,
                                   "Token invalide - utilisateur non trouve")
                   /\ (t.kind = "valid" /\ a \in DOMAIN users)
                        => IF users[a].statut # "actif"
                           THEN Refused(r, 403, "Compte inactif")
                           ELSE IF users[a].compteBloque
                           THEN Refused(r, 423, "Compte bloque")
                           ELSE pc'[r] # "done" /\ loc'[r].caller = a]_vars
    /\ [][\A r \in Req :
            (pc[r] = "all_authorize" /\ pc'[r] # "all_authorize")
            => IF loc[r].caller \notin DOMAIN users
               THEN Refused(r, 401, "Utilisateur non trouve")
               ELSE IF users[loc[r].caller].role \in {"admin", "manager"}
               THEN pc'[r] = "all_find"
               ELSE Refused(r, 403, "Acces interdit : role insuffisant")]_vars

\* the valid token of a user stored both inactif and blocked was presented
\* and answered with the inactive-account failure
C16_Witness ==
    \E r \in Req :
        /\ pc[r] = "done"
        /\ req[r].op \in {"me", "all"}
        /\ req[r].token.kind = "valid"
        /\ req[r].token.id \in DOMAIN users
        /\ users[req[r].token.id].statut = "inactif"
        /\ users[req[r].token.id].compteBloque
        /\ resp[r] = Reply(403, "Compte inactif")

\* C17: a login with an email no user holds, and a login with a wrong
\* password for a user found actif and not blocked, are answered with the
\* same response: 401 with the one message, no token, no data.
C17_SameAnswer ==
    /\ [][\A r \in Req :
            (Starts(r, "login") /\ FindUserByEmail(req'[r].email) = {})
            => /\ pc'[r] = "done"
               /\ resp'[r] = Reply(401, "Identifiants invalides")]_vars
    /\ [][\A r \in Req, u \in DOMAIN users :
            ( /\ StartsLogin(r, u)
              /\ users[u].statut = "actif"
              /\ ~users[u].compteBloque )
            => pc'[r] = "login_compare"]_vars
    /\ [][\A r \in Req :
            ( /\ pc[r] = "login_compare"
              /\ pc'[r] = "done"
              /\ ~comparePassword(loc[r].user[1], req[r].password) )
            => resp'[r] = Reply(401, "Identifiants invalides")]_vars

\* a login for an email nobody holds and a login with a wrong password for
\* A, actif and not blocked, got the same response
C17_Witness ==
    \E r, q \in Req :
        /\ pc[r] = "done" /\ pc[q] = "done"
        /\ req[r].op = "login" /\ req[q].op = "login"
        /\ FindUserByEmail(req[r].email) = {}
        /\ req[q].email = users["A"].email
        /\ ~comparePassword(users["A"], req[q].password)
        /\ users["A"].statut = "actif"
        /\ ~users["A"].compteBloque
        /\ users["A"].tentativesConnexion > 0
        /\ resp[q].status = 401
        /\ resp[r] = resp[q]

\* C18: a POST whose payload has ventesRealisees > rdvRealises or dossiersMAJ
\* > totalDossiers is answered 400 with a message of its own, not with the
\* 500 of the generic server error, and leaves the store as it was.
C18_CrossFieldIs400 ==
    [][\A r \in Req :
         (PostWrites(r)
          /\ PreSaveError(PerformanceData(req[r].body, loc[r].caller)))
         => /\ resp'[r].status = 400
            /\ resp'[r].message # "Erreur serveur"
            /\ perfs' = perfs]_vars

\* the stored records a listing for the caller and the query is about: the
\* caller's own that match the filters given
MatchingOf(caller, query) ==
    {i \in DOMAIN perfs :
        /\ perfs[i].utilisateur = caller
        /\ query.annee # 0 => perfs[i].annee = query.annee
        /\ query.mois # 0 => perfs[i].mois = query.mois
        /\ query.statut # "none" => perfs[i].statut = query.statut}

\* the matching records that come before record d, year then month descending
Before(caller, query, d) ==
    {j \in MatchingOf(caller, query) :
        \/ perfs[j].annee > d.annee
        \/ perfs[j].annee = d.annee /\ perfs[j].mois > d.mois}

\* list is the page of the query: the elements at the positions
\* (page - 1) * limit .. page * limit - 1 of the caller's matching records in
\* descending order
IsPageOf(list, caller, query) ==
    LET skip == (PageOf(query) - 1) * LimitOf(query)
        total == Cardinality(MatchingOf(caller, query))
        left == IF total > skip THEN total - skip ELSE 0
    IN  /\ Len(list) = IF left < LimitOf(query) THEN left ELSE LimitOf(query)
        /\ \A k \in 1 .. Len(list) :
              /\ list[k] \in {perfs[i] : i \in MatchingOf(caller, query)}
              /\ Cardinality(Before(caller, query, list[k])) = skip + k - 1

\* C20: a listing by U is answered with the page of the query, cut from U's
\* own records that match the filters, in descending order of year then
\* month, and with the number of all of them as total; no record of another
\* user is returned; the pages 1 .. ceil(total / limit) of one query together
\* hold each matching record once.  The page is the one of the store that the
\* find reads, each of its records is answered as found, its utilisateur
\* replaced by the owner or by null, and total counts the store that
\* countDocuments reads.
C20_ListIsPage ==
    [][\A r \in Req :
         LET c == loc[r].caller
             q == req[r].query
             total == Cardinality(MatchingOf(c, q))
         IN  /\ (pc[r] = "list_find" /\ pc'[r] # "list_find")
                => LET list == loc'[r].perf
                   IN  /\ pc'[r] = IF Len(list) = 0 THEN "list_count"
                                   ELSE "list_populate"
                       /\ IsPageOf(list, c, q)
                       /\ \A k \in 1 .. Len(list) : list[k].utilisateur = c
                       /\ \A i \in MatchingOf(c, q) :
                             Cardinality(
                                 {<<pg, k>> \in (1 .. Pages(total, LimitOf(q)))
                                                \X (1 .. LimitOf(q)) :
                                     LET l == ListPage(c, [q EXCEPT !.page = pg])
                                     IN  k <= Len(l) /\ l[k] = perfs[i]}) = 1
             /\ (pc[r] = "list_populate" /\ pc'[r] # "list_populate")
                => /\ pc'[r] = "list_count"
                   /\ Len(loc'[r].perf) = Len(loc[r].perf)
                   /\ \A k \in 1 .. Len(loc[r].perf) :
                         /\ loc'[r].perf[k].utilisateur \in {c, Null}
                         /\ loc'[r].perf[k].utilisateur = Null
                              => c \notin DOMAIN users
                         /\ [loc'[r].perf[k] EXCEPT !.utilisateur = c]
                              = loc[r].perf[k]
             /\ (pc[r] = "list_count" /\ pc'[r] # "list_count")
                => /\ pc'[r] = "done"
                   /\ resp'[r].status = 200
                   /\ \E d \in resp'[r].data :
                         /\ d.performances = loc[r].perf
                         /\ d.total = total]_vars

\* A, holding two records, asked for page 2 by pages of one record and got
\* the older one, with total 2
C20_Witness ==
    \E r \in Req :
        /\ pc[r] = "done"
        /\ req[r].op = "list"
        /\ req[r].token.id = "A"
        /\ req[r].query.page = 2
        /\ req[r].query.limit = 1
        /\ resp[r].status = 200
        /\ \E d \in resp[r].data :
              /\ d.total = 2
              /\ Len(d.performances) = 1
              /\ \E i \in MatchingOf("A", req[r].query) :
                    /\ d.performances[1] = perfs[i]
                    /\ Cardinality(Before("A", req[r].query, perfs[i])) = 1

\* in this step the administrator's unlockAccount saves the copy of u
UnlockSaves(u) ==
    /\ loc[Admin].user # <<>>
    /\ loc[Admin].caller = u
    /\ loc'[Admin].user = <<>>

\* C19: a stored compteBloque that is true stays true through every step of
\* a login, a profile update, a password change and a protected request, in
\* any interleaving; it goes back to false only by the save of
\* unlockAccount, and after that save the user is stored with compteBloque
\* false, tentativesConnexion 0 and no dateBlocage.
C19_OnlyUnlockUnblocks ==
    [][\A u \in DOMAIN users :
         /\ (users[u].compteBloque /\ ~users'[u].compteBloque)
            => UnlockSaves(u)
         /\ UnlockSaves(u)
            => /\ ~users'[u].compteBloque
               /\ users'[u].tentativesConnexion = 0
               /\ users'[u].dateBlocage = NoDate]_vars

\* in this step slot r's password change is answered after the comparison
PasswordAnswers(r) == pc[r] = "password_save" /\ pc'[r] = "done"

\* in this step slot r's login is answered after the comparison
LoginAnswers(r) == pc[r] = "login_compare" /\ pc'[r] = "done"

\* C21: a password change whose currentPassword does not verify against the
\* stored password is answered 400 and leaves the stored user as it was; one
\* whose currentPassword verifies is answered 200, and the stored password
\* then verifies newPassword and no other password; a login that reaches
\* the comparison succeeds when its password verifies against the stored
\* one, and is a failed attempt (401, counter raised) when it does not.
C21_PasswordChange ==
    /\ [][\A r \in Req :
            PasswordAnswers(r)
            => LET id == loc[r].caller
                   new == req[r].body.newPassword
               IN  IF comparePassword(users[id], req[r].password)
                   THEN /\ resp'[r].status = 200
                        /\ comparePassword(users'[id], new)
                        /\ \A p \in Passwords \ {new} :
                              ~comparePassword(users'[id], p)
                   ELSE /\ resp'[r].status = 400
                        /\ users' = users]_vars
    /\ [][\A r \in Req :
            LoginAnswers(r)
            => LET id == loc[r].caller
               IN  IF comparePassword(users[id], req[r].password)
                   THEN /\ resp'[r].status = 200
                        /\ resp'[r].token = generateToken(id)
                   ELSE /\ resp'[r].status = 401
                        /\ resp'[r].token = NoToken
                        /\ users'[id].tentativesConnexion =
                              users[id].tentativesConnexion + 1]_vars

\* A, registered with pw1, has logged in with pw2 after changing its password
C21_Witness ==
    \E r \in Req :
        /\ pc[r] = "done"
        /\ req[r].op = "login"
        /\ req[r].email = users["A"].email
        /\ req[r].password = "pw2"
        /\ resp[r].status = 200
        /\ users["A"].password = Hash("pw2")
        /\ ~comparePassword(users["A"], "pw1")

\* C22: a login that reaches the password comparison on an account found
\* actif and not blocked and fails it raises the stored tentativesConnexion
\* by exactly 1, also when another login for the account read the user
\* before this one saved it.
C22_EveryFailureCounts ==
    [][\A r \in Req :
         (LoginAnswers(r) /\ ~comparePassword(loc[r].user[1], req[r].password))
         => LET id == loc[r].caller
            IN  /\ resp'[r].status = 401
                /\ users'[id].tentativesConnexion =
                      users[id].tentativesConnexion + 1]_vars

\* C23: every stored user is blocked exactly when its tentativesConnexion is
\* at least 5, and has a dateBlocage exactly when it is blocked, whatever
\* login requests interleave.
C23_BlockedIffFive ==
    \A u \in DOMAIN users :
        /\ users[u].compteBloque
              <=> users[u].tentativesConnexion >= MaxLoginAttempts
        /\ users[u].dateBlocage # NoDate <=> users[u].compteBloque

\* in this step slot r's profile update is answered after its write
ProfileAnswers(r) == pc[r] = "profile_update" /\ pc'[r] = "done"

\* C26: a profile update sets the caller's nom and poste to the values the
\* body carries for them, each only when the body carries one, and leaves
\* every other field of the caller and every other user as they were,
\* whatever else the body carries.
C26_ProfileFrame ==
    [][\A r \in Req :
         ProfileAnswers(r)
         => LET id == loc[r].caller
                body == req[r].body
            IN  /\ resp'[r].status = 200
                /\ DOMAIN users' = DOMAIN users
                /\ \A u \in DOMAIN users \ {id} : users'[u] = users[u]
                /\ \A f \in DOMAIN users[id] :
                      users'[id][f] =
                         IF f \in {"nom", "poste"} /\ body[f] # "none"
                         THEN body[f] ELSE users[id][f]]_vars

\* A, with failed logins counted, sent a nom, a role and the email of B: the
\* nom is stored, the role, the email and the counter are as they were
C26_Witness ==
    \E r \in Req :
        /\ pc[r] = "done"
        /\ req[r].op = "profile"
        /\ req[r].token.id = "A"
        /\ req[r].body.nom = "Sow"
        /\ req[r].body.poste = "none"
        /\ req[r].body.role = "admin"
        /\ req[r].body.email = "b@waw.com"
        /\ resp[r].status = 200
        /\ users["A"].nom = "Sow"
        /\ users["A"].poste = "none"
        /\ users["A"].role = "utilisateur"
        /\ users["A"].email = "a@waw.com"
        /\ users["A"].tentativesConnexion > 0

\* C24: no two stored users hold the same email in lower case, whatever
\* registrations and profile updates interleave.
C24_UniqueEmail ==
    \A u, v \in DOMAIN users :
        Lower(users[u].email) = Lower(users[v].email) => u = v

\* two registrations for one email raced and the index turned the second
\* down; a profile update carrying the email of B was answered; one user
\* holds the email registered
C24_Witness ==
    \E r, q \in Req :
        /\ pc[r] = "done" /\ pc[q] = "done"
        /\ req[r].op = "register"
        /\ req[r].email = "x@waw.com"
        /\ resp[r].status = 500
        /\ req[q].op = "profile"
        /\ req[q].body.email = "b@waw.com"
        /\ req[q].token.id # "B"
        /\ resp[q].status = 200
        /\ Cardinality(FindUserByEmail("x@waw.com")) = 1

\* the stored records that hold exactly what slot r's POST submits: the key
\* of the caller and the period, and the values of the body
HoldingSubmitted(r, store) ==
    {i \in DOMAIN store :
        store[i] = Document(i, PerformanceData(req[r].body, req[r].token.id))}

\* C25: a POST with a payload that satisfies the validation rules is
\* answered 201 or 200 and leaves a record that holds the submitted values;
\* the same POST issued again, finding that record, is answered 200 and
\* leaves the store as the first left it.
C25_PostIdempotent ==
    /\ [][\A r \in Req :
            (PostWrites(r) /\ ValidPayload(r))
            => /\ PostAccepted(r)
               /\ HoldingSubmitted(r, perfs') # {}
               /\ HoldingSubmitted(r, perfs) # {}
                     => /\ pc'[r] = "post_update_populate"
                        /\ perfs' = perfs
                        /\ nextId' = nextId]_vars
    /\ [][UpdateIsAnswered200 /\ CreateIsAnswered201]_vars

\* the POST that created record 1 is issued a second time: it has found the
\* record, which holds the values it submits, and is about to write
C25_Witness ==
    \E r \in Req :
        /\ pc[r] = "post_write"
        /\ loc[r].perf = <<1>>
        /\ nextId = 2
        /\ ValidPayload(r)
        /\ HoldingSubmitted(r, perfs) = {1}

\* C27: a login is answered by the first of its checks that fails, in the
\* order unknown email (401), blocked (423), inactif (403), wrong password
\* (401 and the counter raised), and else succeeds; for an account inactif
\* and not blocked it is answered 403 whatever the password, before any
\* comparison, with no token and the users as they were; an account both
\* blocked and inactif gets 423.
C27_LoginOrder ==
    /\ [][\A r \in Req :
            Starts(r, "login")
            => LET found == FindUserByEmail(req'[r].email)
                   u == CHOOSE x \in found : TRUE
               IN  IF found = {}
                   THEN Refused(r, 401, "Identifiants invalides")
                   ELSE IF users[u].compteBloque
                   THEN /\ Refused(r, 423,
                              "Compte bloque. Contactez l'administrateur.")
                        /\ users' = users /\ issued' = issued
                   ELSE IF users[u].statut = "inactif"
                   THEN /\ Refused(r, 403,
                              "Compte inactif. Contactez l'administrateur.")
                        /\ users' = users /\ issued' = issued
                   ELSE /\ pc'[r] = "login_compare"
                        /\ users' = users /\ issued' = issued]_vars
    /\ [][\A r \in Req :
            LoginAnswers(r)
            => LET id == loc[r].caller
               IN  IF comparePassword(loc[r].user[1], req[r].password)
                   THEN /\ resp'[r].status = 200
                        /\ resp'[r].token = generateToken(id)
                   ELSE /\ Refused(r, 401, "Identifiants invalides")
                        /\ users'[id].tentativesConnexion =
                              loc[r].user[1].tentativesConnexion + 1]_vars

\* A, inactif and not blocked with two failed logins counted, sent its right
\* password and was answered 403; the counter is as it was
C27_Witness ==
    \E r \in Req :
        /\ pc[r] = "done"
        /\ req[r].op = "login"
        /\ req[r].email = users["A"].email
        /\ comparePassword(users["A"], req[r].password)
        /\ users["A"].statut = "inactif"
        /\ ~users["A"].compteBloque
        /\ users["A"].tentativesConnexion = 2
        /\ resp[r] = Reply(403, "Compte inactif. Contactez l'administrateur.")

\* C28: when a POST is answered 200 or 201, a record of the caller and the
\* period holding the submitted values is stored right after its write, also
\* when a DELETE of the record ran between the POST's lookup and its write.
C28_SuccessMeansStored ==
    [][\A r \in Req :
         (PostWrites(r) /\ PostAccepted(r))
         => \E i \in DOMAIN perfs' :
               /\ perfs'[i].utilisateur = loc[r].caller
               /\ perfs'[i].annee = req[r].body.periode.annee
               /\ perfs'[i].mois = req[r].body.periode.mois
               /\ perfs'[i] =
                     Document(i, PerformanceData(req[r].body, loc[r].caller))]_vars

\* C29: a user created by a registration has role utilisateur, statut actif,
\* tentativesConnexion 0 and is not blocked, whatever the body carries; the
\* listing of all records is never answered 200 to a user that registered,
\* whatever registrations, logins, profile updates and password changes
\* came before.
C29_RegisterIsPlainUser ==
    /\ [][\A r \in Req :
            (pc[r] = "register_create" /\ resp'[r].status = 201)
            => \E u \in DOMAIN users' \ DOMAIN users :
                  /\ users'[u].role = "utilisateur"
                  /\ users'[u].statut = "actif"
                  /\ users'[u].tentativesConnexion = 0
                  /\ ~users'[u].compteBloque]_vars
    /\ [](\A r \in Req :
            (pc[r] = "done" /\ req[r].op = "all" /\ resp[r].status = 200)
            => req[r].token.id \in UserIds)

\* record d is the caller's for the period of the body
KeyedBy(d, caller, body) ==
    /\ d.utilisateur = caller
    /\ d.annee = body.periode.annee
    /\ d.mois = body.periode.mois

\* C30: a POST by U creates or modifies only the record of U for the period
\* submitted: a record it creates is owned by U, whatever utilisateur the
\* body carries; no step changes the owner or the period of a stored record;
\* the records of other users and of other periods are left as they were.
C30_PostFrame ==
    /\ [][\A i \in DOMAIN perfs \cap DOMAIN perfs' :
            /\ perfs'[i].utilisateur = perfs[i].utilisateur
            /\ perfs'[i].annee = perfs[i].annee
            /\ perfs'[i].mois = perfs[i].mois]_vars
    /\ [][\A r \in Req :
            PostWrites(r)
            => /\ \A i \in DOMAIN perfs :
                     ~KeyedBy(perfs[i], loc[r].caller, req[r].body)
                     => i \in DOMAIN perfs' /\ perfs'[i] = perfs[i]
               /\ \A i \in DOMAIN perfs' \ DOMAIN perfs :
                     KeyedBy(perfs'[i], loc[r].caller, req[r].body)]_vars

\* A posted a body naming B as utilisateur for a period B has a record of:
\* the record created is A's, and B's is as B posted it
C30_Witness ==
    \E r, q \in Req :
        /\ r # q
        /\ pc[r] = "done" /\ pc[q] = "done"
        /\ req[r].op = "post" /\ req[q].op = "post"
        /\ req[r].token.id = "A" /\ req[q].token.id = "B"
        /\ req[r].body.utilisateur = "B"
        /\ req[r].body.periode = req[q].body.periode
        /\ req[r].body.mesures # req[q].body.mesures
        /\ resp[r].status = 201 /\ resp[q].status = 201
        /\ \E i, j \in DOMAIN perfs :
              /\ perfs[i] = Document(i, PerformanceData(req[r].body, "A"))
              /\ perfs[j] = Document(j, PerformanceData(req[q].body, "B"))
              /\ perfs[i].utilisateur = "A"
              /\ perfs[j].utilisateur = "B"

====
